---- MODULE Spec2Model ----
(***************************************************************************)
(* Model of the V-Ralph micro-V execution engine:                          *)
(*   micro_v/executor.py  (execute_story, _format_prompt, _run_validation) *)
(*   micro_v/auditor.py   (_parse_verdict)                                 *)
(*   shared/claude.py     (invoke_claude, as seen by its callers)          *)
(*                                                                         *)
(* Text is modelled as a sequence of tokens.  A token is an indivisible    *)
(* piece of text: a placeholder such as "{{goal}}", a newline, a blank, a  *)
(* code fence, a verdict keyword, or a run of ordinary characters.         *)
(* String concatenation is \o, "in" is Contains, str.replace is Replace.   *)
(***************************************************************************)
EXTENDS Integers, Sequences, FiniteSets, TLC

(***************************************************************************)
(* Bounds of the model                                                     *)
(***************************************************************************)
\* largest max_retries a configuration is drawn with
MaxRetriesBound == 3

\* number of execute_story calls made in one behaviour
MaxStories == 2

\* longest raw auditor output (in tokens) given to _parse_verdict
MaxOutputLen == 4

\* Python's None, where a text or a list is expected
None == << "<None>" >>

\* the newline character
NL == "<newline>"

\* the code-fence marker, three backquotes
Fence == "<fence>"

(***************************************************************************)
(* Text helpers                                                            *)
(***************************************************************************)
\* Python: sub in s
Contains(s, sub) ==
    \E i \in 0..(Len(s) - Len(sub)) : SubSeq(s, i + 1, i + Len(sub)) = sub

RECURSIVE Replace(_, _, _)
\* Python: s.replace(old, new) for a one-token old: a single left-to-right
\* pass, the inserted text is not scanned again
Replace(s, old, new) ==
    IF s = << >> THEN << >>
    ELSE (IF Head(s) = old THEN new ELSE << Head(s) >>) \o Replace(Tail(s), old, new)

RECURSIVE JoinLines(_)
\* Python: "\n".join(f"- {c}" for c in items)
JoinLines(items) ==
    IF items = << >> THEN << >>
    ELSE IF Len(items) = 1 THEN << "- ", items[1] >>
    ELSE << "- ", items[1], NL >> \o JoinLines(Tail(items))

(***************************************************************************)
(* Inputs                                                                  *)
(***************************************************************************)
\* texts an external process can write (stderr of the coder, output of the
\* validation command, feedback or reason of the auditor)
Texts ==
    { << >>,
      << "TypeError: missing argument" >>,
      << "NameError: name", " ", "add" >>,
      << "expected", "{{criteria}}", "in prompt" >> }

\* the stories handed to execute_story
Stories ==
    { [id |-> "US-001", title |-> "Test Story", description |-> "A test user story",
       acceptanceCriteria |-> << "Criterion 1", "Criterion 2" >>, priority |-> 1,
       passes |-> FALSE, notes |-> "", attempts |-> 0] }

\* contents of the file at config.coder_prompt_path; None: no such file.
\* Like the template of the repository and the templates of its tests, each
\* has the {{goal}} placeholder
Templates ==
    { << "{{goal}}", "{{files}}", "{{criteria}}", "{{learnings}}" >>,
      << "# Coder Prompt", "{{goal}}", "## Criteria", "{{criteria}}" >> }

\* ExecutorConfig values
Configs ==
    [ max_retries : (-1)..MaxRetriesBound,
      validation_command : { "", "pytest" },
      learnings : { << >>, << "Use pytest" >> },
      files_whitelist : { None, << "file1.py", "file2.py" >> },
      claude_timeout : { "300" },
      enable_audit : BOOLEAN ]

(***************************************************************************)
(* shared/claude.py: the results of invoke_claude                          *)
(***************************************************************************)
\* process.returncode of a child that has ended: its exit status, or -N when
\* it was terminated by signal N (-1: SIGHUP)
ReturnCodes == { 0, 1, -1 }

\* line 61: the child completed, its own stdout, stderr and return code
CompletedResults ==
    [ stdout : { << "Code written" >> }, stderr : Texts, exit_code : ReturnCodes ]

\* line 68: subprocess.TimeoutExpired
TimeoutResult(timeout) ==
    [ stdout |-> << >>, stderr |-> << "Timeout: Process killed after ", timeout, "s" >>,
      exit_code |-> -1 ]

\* line 72: FileNotFoundError
NotFoundResult ==
    [ stdout |-> << >>, stderr |-> << "Error: claude command not found in PATH" >>,
      exit_code |-> -1 ]

\* line 79: any other exception e, "Error: " followed by str(e)
ErrorResult ==
    [ stdout |-> << >>, stderr |-> << "Error: ", "OSError" >>, exit_code |-> -1 ]

\* what invoke_claude can return to its caller
InvokeClaudeResults(timeout) ==
    CompletedResults \cup { TimeoutResult(timeout), NotFoundResult, ErrorResult }

(***************************************************************************)
(* micro_v/auditor.py                                                      *)
(***************************************************************************)
\* number of characters of the long run of ordinary characters, more than
\* the excerpt of line 117 keeps
LongTextLen == 600

\* a run of LongTextLen ordinary characters
LongText == "<long text>"

\* the tokens a raw auditor output is made of
OutputTokens == { "PASS", "RETRY:", "ESCALATE:", " ", NL, Fence, "text", LongText }

\* the number of characters of a token
CharLen(t) ==
    CASE t = "PASS" -> 4
      [] t = "RETRY:" -> 6
      [] t = "ESCALATE:" -> 9
      [] t = " " -> 1
      [] t = NL -> 1
      [] t = Fence -> 3
      [] t = "text" -> 4
      [] t = LongText -> LongTextLen

\* the token that stands for the first n characters of the token t
CutToken(t, n) == t \o "[:" \o ToString(n) \o "]"

RECURSIVE Slice(_, _)
\* Python: s[:n], n counted in characters
Slice(s, n) ==
    IF s = << >> \/ n = 0 THEN << >>
    ELSE IF CharLen(Head(s)) <= n
    THEN << Head(s) >> \o Slice(Tail(s), n - CharLen(Head(s)))
    ELSE << CutToken(Head(s), n) >>

\* every sequence over S of length at most n
SeqsUpTo(S, n) == UNION { [1..k -> S] : k \in 0..n }

\* the raw outputs given to _parse_verdict
RawOutputs == SeqsUpTo(OutputTokens, MaxOutputLen)

\* the characters str.strip() removes and the pattern \s matches
IsSpace(t) == t \in { " ", NL }

RECURSIVE LStrip(_)
LStrip(s) == IF s # << >> /\ IsSpace(Head(s)) THEN LStrip(Tail(s)) ELSE s

RECURSIVE RStrip(_)
RStrip(s) ==
    IF s # << >> /\ IsSpace(s[Len(s)]) THEN RStrip(SubSeq(s, 1, Len(s) - 1)) ELSE s

\* Python: s.strip()
Strip(s) == RStrip(LStrip(s))

\* the positions where ^ matches under re.MULTILINE
LineStart(s, i) == i = 1 \/ s[i - 1] = NL

\* the positions (as the index of the last character before them) where $
\* matches under re.MULTILINE
LineEnd(s, j) == j = Len(s) \/ s[j + 1] = NL

\* mutant of MatchesPass: without re.MULTILINE, PASS has to be the whole output
MatchesPass_WholeOutput(s) ==
    /\ s # << >>
    /\ s[1] = "PASS"
    /\ \A k \in 2..Len(s) : IsSpace(s[k])

\* re.search(r"^PASS\s*$", s, re.MULTILINE) finds a match
MatchesPass(s) ==
    \E i \in 1..Len(s) :
        /\ LineStart(s, i)
        /\ s[i] = "PASS"
        /\ \E j \in i..Len(s) :
              /\ \A k \in (i + 1)..j : IsSpace(s[k])
              /\ LineEnd(s, j)

\* the positions where r"^KEYWORD\s*(.+)" matches under MULTILINE | DOTALL
KeywordMatches(s, keyword) ==
    { i \in 1..Len(s) :
        /\ LineStart(s, i)
        /\ s[i] = keyword
        /\ i < Len(s) }

\* group(1) of the leftmost match: \s* is greedy but leaves .+ one character
KeywordGroup(s, keyword) ==
    LET i == CHOOSE m \in KeywordMatches(s, keyword) :
                 \A n \in KeywordMatches(s, keyword) : m <= n
        skips == { j \in i..(Len(s) - 1) : \A k \in (i + 1)..j : IsSpace(s[k]) }
        j == CHOOSE m \in skips : \A n \in skips : n <= m
    IN  SubSeq(s, j + 1, Len(s))

\* Python: text.split(fence)[0]
BeforeFence(text) ==
    LET fences == { i \in 1..Len(text) : text[i] = Fence }
        first == CHOOSE m \in fences : \A n \in fences : m <= n
    IN  SubSeq(text, 1, first - 1)

\* mutant of Payload: the text is not cut at the code fence
Payload_NoFenceCut(group) == Strip(group)

\* the payload of a RETRY: or ESCALATE: match, lines 98-101 and 107-109
Payload(group) ==
    LET text == Strip(group)
    IN  IF Contains(text, << Fence >>) THEN Strip(BeforeFence(text)) ELSE text

\* the 500 of output[:500]
ExcerptLen == 500

\* mutant of Excerpt: the whole output is kept
Excerpt_Whole(output) == output

\* line 117: output[:500]
Excerpt(output) == Slice(output, ExcerptLen)

\* AuditResult
AuditResult(verdict, feedback, reason) ==
    [ verdict |-> verdict, feedback |-> feedback, reason |-> reason ]

\* mutant of _parse_verdict: the ESCALATE: pattern is searched before the
\* RETRY: pattern
_parse_verdict_EscalateFirst(raw) ==
    LET output == Strip(raw)
    IN  IF MatchesPass(output)
        THEN AuditResult("PASS", << >>, << >>)
        ELSE IF KeywordMatches(output, "ESCALATE:") # { }
        THEN AuditResult("ESCALATE", << >>, Payload(KeywordGroup(output, "ESCALATE:")))
        ELSE IF KeywordMatches(output, "RETRY:") # { }
        THEN AuditResult("RETRY", Payload(KeywordGroup(output, "RETRY:")), << >>)
        ELSE AuditResult("RETRY",
                 << "Auditor output was unclear. Raw output: " >>
                     \o Excerpt(output),
                 << >>)

\* _parse_verdict
_parse_verdict(raw) ==
    LET output == Strip(raw)
    IN  IF MatchesPass(output)
        THEN AuditResult("PASS", << >>, << >>)
        ELSE IF KeywordMatches(output, "RETRY:") # { }
        THEN AuditResult("RETRY", Payload(KeywordGroup(output, "RETRY:")), << >>)
        ELSE IF KeywordMatches(output, "ESCALATE:") # { }
        THEN AuditResult("ESCALATE", << >>, Payload(KeywordGroup(output, "ESCALATE:")))
        ELSE AuditResult("RETRY",
                 << "Auditor output was unclear. Raw output: " >>
                     \o Excerpt(output),
                 << >>)

(***************************************************************************)
(* micro_v/executor.py                                                     *)
(***************************************************************************)
\* _format_prompt
_format_prompt(tmpl, st, learnings, files_whitelist, err) ==
    LET goal0 == << st.id, ": ", st.title, NL, NL, st.description >>
        goal == IF err # << >>
                THEN goal0 \o << NL, NL, "## Previous Iteration Failed", NL, NL,
                              "The previous attempt failed validation with the following error:",
                              NL, NL, Fence, NL >>
                           \o err
                           \o << NL, Fence, NL, NL, "Please fix the issues and try again." >>
                ELSE goal0
        criteria == JoinLines(st.acceptanceCriteria)
        files == IF files_whitelist = None
                 THEN << "(No whitelist specified - use judgment)" >>
                 ELSE JoinLines(files_whitelist)
        learnings_text == IF learnings # << >> THEN learnings
                          ELSE << "(No previous learnings available)" >>
    \* lines 106-109: each replace is applied to the value of the one before
    IN  CHOOSE r4 \in
            { Replace(r3, "{{learnings}}", learnings_text) :
                r3 \in { Replace(r2, "{{files}}", files) :
                    r2 \in { Replace(r1, "{{criteria}}", criteria) :
                        r1 \in { Replace(tmpl, "{{goal}}", goal) } } } } : TRUE

\* lines 128-136: what subprocess.run does with a validation command: it
\* completes with the return code and the output of the command, raises
\* TimeoutExpired, or raises another exception with a message
Completed(returncode, stdout, stderr) ==
    [ kind |-> "completed", returncode |-> returncode, stdout |-> stdout,
      stderr |-> stderr, message |-> "" ]

TimeoutExpired ==
    [ kind |-> "TimeoutExpired", returncode |-> 0, stdout |-> << >>, stderr |-> << >>,
      message |-> "" ]

Raised(message) ==
    [ kind |-> "Exception", returncode |-> 0, stdout |-> << >>, stderr |-> << >>,
      message |-> message ]

\* a pair _run_validation returns, or the exception that leaves it
Returns(passed, output) == [ raised |-> FALSE, passed |-> passed, output |-> output ]

\* the except Exception clause is missing: the exception leaves the function
_run_validation_of_ExceptionEscapes(cmd, o) ==
    IF cmd = ""
    THEN Returns(TRUE, << >>)
    ELSE CASE o.kind = "completed" -> Returns(o.returncode = 0, o.stdout \o o.stderr)
           [] o.kind = "TimeoutExpired" ->
                  Returns(FALSE, << "Validation command timed out after 120s" >>)
           [] o.kind = "Exception" ->
                  [ raised |-> TRUE, passed |-> FALSE, output |-> << o.message >> ]

\* lines 123-148: _run_validation(command, working_dir) when subprocess.run
\* does o
_run_validation_of(cmd, o) ==
    IF cmd = ""
    THEN Returns(TRUE, << >>)
    ELSE CASE o.kind = "completed" -> Returns(o.returncode = 0, o.stdout \o o.stderr)
           [] o.kind = "TimeoutExpired" ->
                  Returns(FALSE, << "Validation command timed out after 120s" >>)
           [] o.kind = "Exception" ->
                  Returns(FALSE, << "Validation command failed: ", o.message >>)

\* what subprocess.run does with the validation command of a story
StoryOutcomes ==
    { Completed(c, out, << >>) : c \in { 0, 1 }, out \in Texts }
        \cup { TimeoutExpired, Raised("OSError") }

\* mutant of _run_validation: a timeout of the command counts as a pass
_run_validation_TimeoutPasses(cmd) ==
    IF cmd = ""
    THEN { [passed |-> TRUE, output |-> << >>] }
    ELSE [ passed : BOOLEAN, output : Texts ]
         \cup { [passed |-> TRUE, output |-> << "Validation command timed out after 120s" >>] }
         \cup { [passed |-> FALSE, output |-> << "Validation command failed: ", "OSError" >>] }

\* _run_validation: the (success, output_or_error) pairs it can return
_run_validation(cmd) ==
    { [ passed |-> r.passed, output |-> r.output ] :
        r \in { _run_validation_of(cmd, o) : o \in StoryOutcomes } }

\* the AuditResult values audit_implementation can return
AuditResults ==
    { [verdict |-> "PASS", feedback |-> << >>, reason |-> << >>] }
    \cup [ verdict : { "RETRY" }, feedback : Texts, reason : { << >> } ]
    \cup [ verdict : { "ESCALATE" }, feedback : { << >> }, reason : Texts ]

\* mutant of ExecutionOutput: the iteration count is not stored
ExecutionOutput_IterationsDropped(result, st, its, last_error, escalation_reason) ==
    [ result |-> result, story_id |-> st.id, iterations |-> 0,
      last_error |-> last_error, escalation_reason |-> escalation_reason ]

\* ExecutionOutput
ExecutionOutput(result, st, its, last_error, escalation_reason) ==
    [ result |-> result, story_id |-> st.id, iterations |-> its,
      last_error |-> last_error, escalation_reason |-> escalation_reason ]

VARIABLES
    pc,             \* position in execute_story: idle (no call), load, loop, coder,
                    \* validate, audit, done (at a return statement)
    story,          \* argument story
    config,         \* argument config
    prompt_file,    \* content of the file at config.coder_prompt_path, or None
    template,       \* local template
    error_context,  \* local error_context
    iterations,     \* local iterations
    attempt,        \* loop variable attempt (0 before the loop)
    prompt,         \* local prompt of the current iteration
    returned,       \* the ExecutionOutput returned, or NoOutput
    stories,        \* number of execute_story calls started
    phase_calls,    \* history: the phases called in the current iteration and their
                    \* statuses, in order
    last_call,      \* history: the last phase call and what it returned
    prev_failure,   \* history: the call that failed the previous iteration
    failed_phases,  \* history: the phases that failed an iteration of this execution
    call_log,       \* history: number of calls of each phase during this execution
    apc,            \* position in the auditor: off; in _parse_verdict called,
                    \* returned; in audit_implementation idle (no call), load,
                    \* invoke, verdict, raised (AuditorError), done (returned)
    raw_output,     \* argument output of _parse_verdict
    audit_result,   \* the AuditResult _parse_verdict returned
    audit_args,     \* arguments spec and diff of audit_implementation
    auditor_file,   \* content of the file at prompt_path, or None
    session,        \* what the coding session held when the audit was called:
                    \* coder prompt, coder output, error context
    audit_prompt,   \* local prompt of audit_implementation
    audit_invoked,  \* the tuple invoke_claude returned to audit_implementation
    audit_returned, \* the AuditResult audit_implementation returned
    audits,         \* number of audit_implementation calls started
    processes,      \* number of child processes spawned for audits so far
    audit_log,      \* history: for each audit that invoked the auditor, the
                    \* template, spec and diff, the session it was called in, the
                    \* prompt sent and the process spawned (0: none)
    ipc,            \* position in invoke_claude: off, idle (no call), popen,
                    \* communicate, terminate, wait_grace, kill, wait_reap,
                    \* best_effort, handler_return, returned
    calls,          \* number of invoke_claude calls started
    child,          \* the child process of the current call: none (not spawned),
                    \* running, zombie (ended, not reaped), reaped
    returncode,     \* process.returncode of the child: None while it has not
                    \* ended, then its exit status or -N for signal N
    spawned,        \* number of child processes the current call has spawned
    ops,            \* history: the methods _kill_process_tree has called on the
                    \* Popen object, in order
    handler,        \* the except clause of invoke_claude that is being executed
    result,         \* the tuple invoke_claude returned, or NoResult
    orphans,        \* number of children of earlier calls that were running or
                    \* unreaped when their call returned
    vpc,            \* position in _run_validation: off, called, returned
    command,        \* argument command of _run_validation
    outcome,        \* what subprocess.run does with the command: completes with a
                    \* return code, raises TimeoutExpired, raises another exception
    validation,     \* the (success, output_or_error) pair _run_validation returned
    rpc,            \* position in cmd_run: off, start, unpushed, detached (the
                    \* safety checks), checked, gate, blocked (returned at the
                    \* gate), load, resolve, coder, validate, audit (the phases
                    \* of the story), done (returned)
    args,           \* argument args of cmd_run: the force flag and the timeout flags
    repo,           \* the git repository of the working directory
    prd,            \* the PRD file: whether it loads, whether a story is pending,
                    \* its timeouts object
    checks,         \* the GitSafetyCheck results, in the order they were made
    is_unsafe,      \* the aggregate run_git_safety_checks returned
    surfaced,       \* the checks shown to the caller as warnings
    timeouts,       \* the ExecutionTimeouts of the run
    run_attempt,    \* the iteration of the story the run is in
    applied,        \* history: the timeout each phase call of the run was made with
    run_exit,       \* the exit code cmd_run returned, or -1
    executions,     \* number of story executions the run has started
    gpc,            \* position in commit_story: off, start, check, stage, commit,
                    \* revparse, done
    whitelist,      \* argument files of commit_story
    worktree,       \* the working directory: for each path whether it is absent,
                    \* unchanged, modified (has a diff against HEAD) or untracked
    index,          \* the paths staged in the git index
    index0,         \* history: the index when commit_story was called
    worktree0,      \* history: the working directory when commit_story was called
    commits,        \* number of commits made since commit_story was called
    staged_files,   \* local staged_files
    file_i,         \* position of the running for loop in its list
    commit_result,  \* the CommitResult returned
    git_calls,      \* history: the git commands _run_git was called with, each
                    \* with its path and whether it succeeded, git commit also
                    \* with its _GitResult
    \* ---- shared/progress.py ----
    progress_file,  \* the progress file: whether it exists, and its content
    patterns_block, \* history: the lines the file had between the Codebase
                    \* Patterns heading and its separator when it was written
    appended,       \* history: the entries append_progress was called with
    progress_call   \* the last call of the module: the function called, the
                    \* max_history given and the ProgressContext returned if it
                    \* was load_learnings

\* the state of execute_story
executorVars == << pc, story, config, prompt_file, template, error_context, iterations,
                   attempt, prompt, returned, stories, phase_calls, last_call,
                   prev_failure, failed_phases, call_log >>

\* the state of _parse_verdict
auditorVars == << apc, raw_output, audit_result, audit_args, auditor_file, session,
                  audit_prompt, audit_invoked, audit_returned, audits, processes,
                  audit_log >>

\* the state of invoke_claude
invokerVars == << ipc, calls, child, returncode, spawned, ops, handler, result, orphans >>

\* the state of _run_validation
validatorVars == << vpc, command, outcome, validation >>

\* the state of cmd_run
cliVars == << rpc, args, repo, prd, checks, is_unsafe, surfaced, timeouts, run_attempt,
              applied, run_exit, executions >>

\* the state of commit_story
gitVars == << gpc, whitelist, worktree, index, index0, worktree0, commits,
              staged_files, file_i, commit_result, git_calls >>

\* the state of load_learnings and append_progress
progressVars == << progress_file, patterns_block, appended, progress_call >>

\* the state of the functions that are called on their own
toolVars == << validatorVars, cliVars, gitVars, progressVars >>

vars == << executorVars, auditorVars, invokerVars, toolVars >>

\* no phase has been called
NoCalls == [ coder |-> 0, validator |-> 0, auditor |-> 0 ]

\* execute_story has not returned
NoOutput == [ result |-> "NONE", story_id |-> "", iterations |-> 0,
              last_error |-> << >>, escalation_reason |-> << >> ]

\* one phase call and what it returned: status is the exit code of the coder
\* ("0", "1", "-1"), "passed" or "failed" for the validator, the verdict for
\* the auditor; text is the coder's stderr, the validation output, the audit
\* feedback or the escalation reason
PhaseCall(phase, iteration, status, text) ==
    [ phase |-> phase, iteration |-> iteration, status |-> status, text |-> text ]

\* a phase call without its text
Called(phase, status) == [ phase |-> phase, status |-> status ]

\* no phase call has been made
NoCall == PhaseCall("none", 0, "", << >>)

\* no execute_story call is running: the locals hold nothing
ExecutorIdle ==
    /\ story = CHOOSE st \in Stories : TRUE
    /\ config = CHOOSE c \in Configs : TRUE
    /\ prompt_file = None
    /\ template = None
    /\ error_context = << >>
    /\ iterations = 0
    /\ attempt = 0
    /\ prompt = << >>
    /\ returned = NoOutput
    /\ stories = 0
    /\ phase_calls = << >>
    /\ last_call = NoCall
    /\ prev_failure = NoCall
    /\ failed_phases = { }
    /\ call_log = NoCalls

\* invoke_claude has not returned
NoResult == [ stdout |-> << >>, stderr |-> << >>, exit_code |-> 0 ]

\* no AuditResult has been returned
NoAuditResult == AuditResult("NONE", << >>, << >>)

\* no coding session precedes the audit
NoSession == [ coder_prompt |-> << >>, coder_output |-> << >>, error_context |-> << >> ]

\* no audit_implementation call is running and none has been made
AuditIdle ==
    /\ audit_args = [ spec |-> << >>, diff |-> << >> ]
    /\ auditor_file = None
    /\ session = NoSession
    /\ audit_prompt = << >>
    /\ audit_invoked = NoResult
    /\ audit_returned = NoAuditResult
    /\ audits = 0
    /\ processes = 0
    /\ audit_log = << >>

\* no auditor call is modelled
AuditorOff ==
    /\ apc = "off"
    /\ raw_output = << >>
    /\ audit_result = NoAuditResult
    /\ AuditIdle

\* no invoke_claude call is running and no child process exists
InvokerIdle ==
    /\ calls = 0
    /\ child = "none"
    /\ returncode = "None"
    /\ spawned = 0
    /\ ops = << >>
    /\ handler = "none"
    /\ result = NoResult
    /\ orphans = 0

\* no invoke_claude call is modelled
InvokerOff ==
    /\ ipc = "off"
    /\ InvokerIdle

\* subprocess.run has not been called
NoOutcome == [ kind |-> "none", returncode |-> 0, stdout |-> << >>, stderr |-> << >>,
               message |-> "" ]

\* _run_validation has not returned
NoValidation == [ passed |-> FALSE, output |-> << "<None>" >> ]

\* no _run_validation call is modelled
ValidatorOff ==
    /\ vpc = "off"
    /\ command = ""
    /\ outcome = NoOutcome
    /\ validation = NoValidation

\* a timeout that is not given: the flag is absent, the PRD has no such key
NotGiven == 0

\* no timeout is given
NoTimeouts == [ validation |-> NotGiven, coder |-> NotGiven, audit |-> NotGiven ]

\* no cmd_run call is running: the locals hold nothing
CliIdle ==
    /\ checks = << >>
    /\ is_unsafe = FALSE
    /\ surfaced = { }
    /\ timeouts = NoTimeouts
    /\ run_attempt = 0
    /\ applied = { }
    /\ run_exit = -1
    /\ executions = 0

\* no cmd_run call is modelled
CliOff ==
    /\ rpc = "off"
    /\ args = [ force |-> FALSE, timeouts |-> NoTimeouts ]
    /\ repo = [ is_repo |-> FALSE, dirty |-> FALSE, upstream |-> "none",
                detached |-> FALSE ]
    /\ prd = [ loads |-> FALSE, pending |-> FALSE, timeouts |-> NoTimeouts ]
    /\ CliIdle

\* shared/git.py: a CommitResult
CommitResult(ok, sha, error) == [ success |-> ok, sha |-> sha, error |-> error ]

\* commit_story has not returned
NoCommitResult == CommitResult(FALSE, "", << "<None>" >>)

\* no commit_story call is running: the locals hold nothing
GitIdle ==
    /\ staged_files = << >>
    /\ file_i = 0
    /\ commits = 0
    /\ commit_result = NoCommitResult
    /\ git_calls = << >>

\* no commit_story call is modelled
GitOff ==
    /\ gpc = "off"
    /\ whitelist = << >>
    /\ worktree = << >>
    /\ index = { }
    /\ index0 = { }
    /\ worktree0 = << >>
    /\ GitIdle

\* the dataclass ProgressContext
ProgressContext(patterns, recent_history) ==
    [ patterns |-> patterns, recent_history |-> recent_history ]

\* a call of the module; append_progress returns None
ProgressCall(fn, max_history, context) ==
    [ fn |-> fn, max_history |-> max_history, context |-> context ]

\* the module has not been called
NoProgressCall == ProgressCall("none", 0, ProgressContext(<< >>, << >>))

\* there is no progress file
NoFile == [ exists |-> FALSE, content |-> << >> ]

\* no progress file is modelled
ProgressOff ==
    /\ progress_file = NoFile
    /\ patterns_block = << >>
    /\ appended = << >>
    /\ progress_call = NoProgressCall

\* none of the functions called on their own is modelled
ToolsOff == ValidatorOff /\ CliOff /\ GitOff /\ ProgressOff

Init ==
    /\ AuditorOff
    /\ InvokerOff
    /\ ToolsOff
    /\ ExecutorIdle
    /\ pc = "idle"

\* a caller calls execute_story(story, config)
StartStory ==
    /\ pc = "idle"
    /\ stories < MaxStories
    /\ stories' = stories + 1
    /\ story' \in Stories
    /\ config' \in Configs
    /\ prompt_file' \in Templates \cup { None }
    /\ pc' = "load"
    /\ template' = None
    /\ error_context' = << >>
    /\ iterations' = 0
    /\ attempt' = 0
    /\ prompt' = << >>
    /\ returned' = NoOutput
    /\ phase_calls' = << >>
    /\ last_call' = NoCall
    /\ prev_failure' = NoCall
    /\ failed_phases' = { }
    /\ call_log' = NoCalls
    /\ UNCHANGED << auditorVars, invokerVars, toolVars >>

\* mutant of InitialErrorContext: the loop starts with an error text
InitialErrorContext_NotEmpty == << "Claude invocation failed" >>

\* line 186, error_context = "": the error context before the first iteration
InitialErrorContext == << >>

\* mutant of LoadTemplate: a missing template file does not abort the call
LoadTemplate_MissingIgnored ==
    /\ pc = "load"
    /\ template' = prompt_file
    /\ error_context' = << >>
    /\ iterations' = 0
    /\ pc' = "loop"
    /\ UNCHANGED returned
    /\ UNCHANGED << story, config, prompt_file, attempt, prompt, stories,
                    phase_calls, last_call, prev_failure, failed_phases, call_log >>
    /\ UNCHANGED << auditorVars, invokerVars, toolVars >>

\* execute_story, lines 174-187: load the template, initialise the locals
LoadTemplate ==
    /\ pc = "load"
    /\ IF prompt_file = None
       THEN /\ returned' = ExecutionOutput("FAILED", story, 0,
                               << "Coder prompt not found: ", "coder_prompt_path" >>, << >>)
            /\ pc' = "done"
            /\ UNCHANGED << template, error_context, iterations >>
       ELSE /\ template' = prompt_file
            /\ error_context' = InitialErrorContext
            /\ iterations' = 0
            /\ pc' = "loop"
            /\ UNCHANGED returned
    /\ UNCHANGED << story, config, prompt_file, attempt, prompt, stories,
                    phase_calls, last_call, prev_failure, failed_phases, call_log >>
    /\ UNCHANGED << auditorVars, invokerVars, toolVars >>

\* mutant of LoopContinues: range(1, config.max_retries + 2)
LoopContinues_OneMore == attempt + 1 <= config.max_retries + 1

\* line 189, for attempt in range(1, config.max_retries + 1): there is a next attempt
LoopContinues == attempt + 1 <= config.max_retries

\* mutant of LoopHead: the assignment iterations = attempt is missing
LoopHead_IterationsNotSet ==
    /\ pc = "loop"
    /\ LoopContinues
    /\ attempt' = attempt + 1
    /\ prompt' = _format_prompt(template, story, config.learnings,
                                config.files_whitelist, error_context)
    /\ prev_failure' = last_call
    /\ phase_calls' = << >>
    /\ pc' = "coder"
    /\ UNCHANGED << story, config, prompt_file, template, error_context, returned,
                    stories, last_call, failed_phases, call_log, iterations >>
    /\ UNCHANGED << auditorVars, invokerVars, toolVars >>

\* execute_story, lines 189-200: the next pass of the for loop
LoopHead ==
    /\ pc = "loop"
    /\ LoopContinues
    /\ attempt' = attempt + 1
    /\ iterations' = attempt'
    /\ prompt' = _format_prompt(template, story, config.learnings,
                                config.files_whitelist, error_context)
    /\ prev_failure' = last_call
    /\ phase_calls' = << >>
    /\ pc' = "coder"
    /\ UNCHANGED << story, config, prompt_file, template, error_context, returned,
                    stories, last_call, failed_phases, call_log >>
    /\ UNCHANGED << auditorVars, invokerVars, toolVars >>

\* mutant of NextErrorContext: the first error of the execution is kept
NextErrorContext_KeepsFirst(old, new) == IF old # << >> THEN old ELSE new

\* lines 212 and 235: the assignment error_context = ..., the error of the
\* failed iteration replaces what was there
NextErrorContext(old, new) == new

\* mutant of CoderFailed: only a positive exit code counts as a failure
CoderFailed_PositiveOnly(r) == r.exit_code > 0

\* line 210: the coder invocation failed
CoderFailed(r) == r.exit_code # 0

\* mutant of CoderError: no fallback text for an empty stderr
CoderError_NoFallback(stderr) == stderr

\* line 212: the error context a failed coder call leaves
CoderError(stderr) ==
    IF stderr # << >> THEN stderr ELSE << "Claude invocation failed" >>

\* mutant of InvokeCoder: a failed coder call is repeated once within the
\* same iteration
InvokeCoder_RepeatedOnce ==
    /\ pc = "coder"
    /\ \E r \in InvokeClaudeResults(config.claude_timeout) :
         /\ phase_calls' = Append(phase_calls, Called("coder", ToString(r.exit_code)))
         /\ last_call' = PhaseCall("coder", attempt, ToString(r.exit_code), r.stderr)
         /\ call_log' = [call_log EXCEPT !.coder = @ + 1]
         /\ IF CoderFailed(r)
            THEN /\ error_context' = CoderError(r.stderr)
                 /\ failed_phases' = failed_phases \cup { "coder" }
                 /\ pc' = IF phase_calls = << >> THEN "coder" ELSE "loop"
            ELSE /\ pc' = "validate"
                 /\ UNCHANGED << error_context, failed_phases >>
    /\ UNCHANGED << story, config, prompt_file, template, iterations, attempt,
                    prompt, returned, stories, prev_failure >>
    /\ UNCHANGED << auditorVars, invokerVars, toolVars >>

\* execute_story, lines 202-216: invoke the coder
InvokeCoder ==
    /\ pc = "coder"
    /\ \E r \in InvokeClaudeResults(config.claude_timeout) :
         /\ phase_calls' = Append(phase_calls, Called("coder", ToString(r.exit_code)))
         /\ last_call' = PhaseCall("coder", attempt, ToString(r.exit_code), r.stderr)
         /\ call_log' = [call_log EXCEPT !.coder = @ + 1]
         /\ IF CoderFailed(r)
            THEN /\ error_context' = NextErrorContext(error_context, CoderError(r.stderr))
                 /\ failed_phases' = failed_phases \cup { "coder" }
                 /\ pc' = "loop"
            ELSE /\ pc' = "validate"
                 /\ UNCHANGED << error_context, failed_phases >>
    /\ UNCHANGED << story, config, prompt_file, template, iterations, attempt,
                    prompt, returned, stories, prev_failure >>
    /\ UNCHANGED << auditorVars, invokerVars, toolVars >>

\* mutant of SuccessOutput: the iterations are counted from zero
SuccessOutput_CountedFromZero ==
    ExecutionOutput("SUCCESS", story, iterations - 1, << >>, << >>)

\* lines 227-231: the ExecutionOutput of a successful execution
SuccessOutput == ExecutionOutput("SUCCESS", story, iterations, << >>, << >>)

\* mutant of RunValidation: the loop records the outcome of the validation in
\* the story it was given
RunValidation_MarksStoryPassed ==
    /\ pc = "validate"
    /\ \E v \in _run_validation(config.validation_command) :
         /\ phase_calls' = Append(phase_calls,
                                  Called("validator", IF v.passed THEN "passed" ELSE "failed"))
         /\ last_call' = PhaseCall("validator", attempt,
                                   IF v.passed THEN "passed" ELSE "failed", v.output)
         /\ call_log' = [call_log EXCEPT !.validator = @ + 1]
         /\ story' = [story EXCEPT !.passes = v.passed, !.attempts = @ + 1]
         /\ IF v.passed
            THEN /\ IF config.enable_audit
                    THEN /\ pc' = "audit"
                         /\ UNCHANGED returned
                    ELSE /\ returned' = SuccessOutput
                         /\ pc' = "done"
                 /\ UNCHANGED << error_context, failed_phases >>
            ELSE /\ error_context' = v.output
                 /\ failed_phases' = failed_phases \cup { "validator" }
                 /\ pc' = "loop"
                 /\ UNCHANGED returned
    /\ UNCHANGED << config, prompt_file, template, iterations, attempt,
                    prompt, stories, prev_failure >>
    /\ UNCHANGED << auditorVars, invokerVars, toolVars >>

\* execute_story, lines 218-235: run the validation command; when it passes
\* and the audit is enabled the auditor phase follows
RunValidation ==
    /\ pc = "validate"
    /\ \E v \in _run_validation(config.validation_command) :
         /\ phase_calls' = Append(phase_calls,
                                  Called("validator", IF v.passed THEN "passed" ELSE "failed"))
         /\ last_call' = PhaseCall("validator", attempt,
                                   IF v.passed THEN "passed" ELSE "failed", v.output)
         /\ call_log' = [call_log EXCEPT !.validator = @ + 1]
         /\ IF v.passed
            THEN /\ IF config.enable_audit
                    THEN /\ pc' = "audit"
                         /\ UNCHANGED returned
                    ELSE /\ returned' = SuccessOutput
                         /\ pc' = "done"
                 /\ UNCHANGED << error_context, failed_phases >>
            ELSE /\ error_context' = NextErrorContext(error_context, v.output)
                 /\ failed_phases' = failed_phases \cup { "validator" }
                 /\ pc' = "loop"
                 /\ UNCHANGED returned
    /\ UNCHANGED << story, config, prompt_file, template, iterations, attempt,
                    prompt, stories, prev_failure >>
    /\ UNCHANGED << auditorVars, invokerVars, toolVars >>

\* mutant of AuditOutcome: an ESCALATE verdict is retried like a RETRY verdict
AuditOutcome_EscalateRetried(a) ==
    IF a.verdict = "PASS"
    THEN /\ returned' = SuccessOutput
         /\ pc' = "done"
         /\ UNCHANGED << error_context, failed_phases >>
    ELSE /\ error_context' = (IF a.verdict = "RETRY" THEN a.feedback ELSE a.reason)
         /\ failed_phases' = failed_phases \cup { "auditor" }
         /\ pc' = "loop"
         /\ UNCHANGED returned

\* execute_story with the semantic audit: what the loop does with a verdict
AuditOutcome(a) ==
    CASE a.verdict = "PASS" ->
           /\ returned' = SuccessOutput
           /\ pc' = "done"
           /\ UNCHANGED << error_context, failed_phases >>
      [] a.verdict = "RETRY" ->
           /\ error_context' = a.feedback
           /\ failed_phases' = failed_phases \cup { "auditor" }
           /\ pc' = "loop"
           /\ UNCHANGED returned
      [] a.verdict = "ESCALATE" ->
           /\ returned' = ExecutionOutput("ESCALATED", story, iterations, << >>, a.reason)
           /\ pc' = "done"
           /\ UNCHANGED << error_context, failed_phases >>

\* execute_story with the semantic audit: the auditor phase of an iteration
RunAudit ==
    /\ pc = "audit"
    /\ \E a \in AuditResults :
         /\ phase_calls' = Append(phase_calls, Called("auditor", a.verdict))
         /\ last_call' = PhaseCall("auditor", attempt, a.verdict,
                                   IF a.verdict = "ESCALATE" THEN a.reason ELSE a.feedback)
         /\ call_log' = [call_log EXCEPT !.auditor = @ + 1]
         /\ AuditOutcome(a)
    /\ UNCHANGED << story, config, prompt_file, template, iterations, attempt,
                    prompt, stories, prev_failure >>
    /\ UNCHANGED << auditorVars, invokerVars, toolVars >>

\* mutant of CircuitBreaker: the result carries no last_error
CircuitBreaker_NoLastError ==
    /\ pc = "loop"
    /\ ~ LoopContinues
    /\ returned' = ExecutionOutput("FAILED", story, iterations, << >>, << >>)
    /\ pc' = "done"
    /\ UNCHANGED << story, config, prompt_file, template, error_context, iterations,
                    attempt, prompt, stories, phase_calls, last_call, prev_failure,
                    failed_phases, call_log >>
    /\ UNCHANGED << auditorVars, invokerVars, toolVars >>

\* execute_story, lines 237-244: the loop is exhausted
CircuitBreaker ==
    /\ pc = "loop"
    /\ ~ LoopContinues
    /\ returned' = ExecutionOutput("FAILED", story, iterations, error_context, << >>)
    /\ pc' = "done"
    /\ UNCHANGED << story, config, prompt_file, template, error_context, iterations,
                    attempt, prompt, stories, phase_calls, last_call, prev_failure,
                    failed_phases, call_log >>
    /\ UNCHANGED << auditorVars, invokerVars, toolVars >>

\* execute_story has returned: its frame is gone, the caller holds the
\* ExecutionOutput
ReturnToCaller ==
    /\ pc = "done"
    /\ pc' = "idle"
    /\ story' = CHOOSE st \in Stories : TRUE
    /\ config' = CHOOSE c \in Configs : TRUE
    /\ prompt_file' = None
    /\ template' = None
    /\ error_context' = << >>
    /\ attempt' = 0
    /\ prompt' = << >>
    /\ phase_calls' = << >>
    /\ last_call' = NoCall
    /\ prev_failure' = NoCall
    /\ failed_phases' = { }
    /\ call_log' = NoCalls
    /\ UNCHANGED << returned, iterations, stories >>
    /\ UNCHANGED << auditorVars, invokerVars, toolVars >>

Next ==
    \/ StartStory
    \/ ReturnToCaller
    \/ LoadTemplate
    \/ LoopHead
    \/ InvokeCoder
    \/ RunValidation
    \/ RunAudit
    \/ CircuitBreaker

Spec == Init /\ [][Next]_vars

\* execute_story is sequential code and each of its phases is bounded by a
\* timeout (claude_timeout for invoke_claude, 120s for the validation
\* command): a call that has started takes its next step
Fairness ==
    /\ WF_vars(LoadTemplate)
    /\ WF_vars(LoopHead)
    /\ WF_vars(InvokeCoder)
    /\ WF_vars(RunValidation)
    /\ WF_vars(RunAudit)
    /\ WF_vars(CircuitBreaker)

\* the first call of execute_story
FirstCall == stories = 0 /\ StartStory

\* one call of execute_story, from the call to the return to the caller
NextCall ==
    \/ FirstCall
    \/ ReturnToCaller
    \/ LoadTemplate
    \/ LoopHead
    \/ InvokeCoder
    \/ RunValidation
    \/ RunAudit
    \/ CircuitBreaker

SpecFair == Init /\ [][NextCall]_vars /\ Fairness


(***************************************************************************)
(* shared/claude.py: invoke_claude and _kill_process_tree                  *)
(***************************************************************************)
\* number of invoke_claude calls made in one behaviour
MaxCalls == 2

\* the timeout argument of the calls
Timeout == "300"

InitInvoke ==
    /\ ExecutorIdle
    /\ pc = "off"
    /\ AuditorOff
    /\ ToolsOff
    /\ InvokerIdle
    /\ ipc = "idle"

\* a caller calls invoke_claude(prompt, timeout); line 47, process = None
StartInvoke ==
    /\ ipc \in { "idle", "returned" }
    /\ calls < MaxCalls
    /\ calls' = calls + 1
    /\ orphans' = orphans + (IF child \in { "running", "zombie" } THEN 1 ELSE 0)
    /\ child' = "none"
    /\ returncode' = "None"
    /\ spawned' = 0
    /\ ops' = << >>
    /\ handler' = "none"
    /\ result' = NoResult
    /\ ipc' = "popen"
    /\ UNCHANGED << executorVars, auditorVars, toolVars >>

\* lines 50-56: subprocess.Popen spawns the child, or raises with process
\* still None (lines 70-72 FileNotFoundError, lines 74-79 another exception)
Popen ==
    /\ ipc = "popen"
    /\ \/ /\ child' = "running"
          /\ spawned' = spawned + 1
          /\ ipc' = "communicate"
          /\ UNCHANGED << handler, result >>
       \/ /\ handler' = "FileNotFoundError"
          /\ result' = NotFoundResult
          /\ ipc' = "returned"
          /\ UNCHANGED << child, spawned >>
       \/ /\ handler' = "Exception"
          /\ result' = ErrorResult
          /\ ipc' = "returned"
          /\ UNCHANGED << child, spawned >>
    /\ UNCHANGED << calls, returncode, ops, orphans >>
    /\ UNCHANGED << executorVars, auditorVars, toolVars >>

\* the child process ends by itself or by a signal it received; until it is
\* waited for it is a zombie
ChildExits ==
    /\ ipc \in { "communicate", "terminate", "wait_grace", "kill", "wait_reap",
                 "best_effort", "handler_return" }
    /\ child = "running"
    /\ child' = "zombie"
    /\ returncode' \in { ToString(c) : c \in ReturnCodes }
    /\ UNCHANGED << ipc, calls, spawned, ops, handler, result, orphans >>
    /\ UNCHANGED << executorVars, auditorVars, toolVars >>

\* lines 59-61: process.communicate(timeout=timeout).  It returns when the
\* child has ended and its pipes are closed, and reaps the child; it raises
\* TimeoutExpired when the timeout expires first (line 63), or another
\* exception (line 74), in both cases with process not None
Communicate ==
    /\ ipc = "communicate"
    /\ \/ /\ child = "zombie"
          /\ child' = "reaped"
          /\ result' \in { r \in CompletedResults : ToString(r.exit_code) = returncode }
          /\ ipc' = "returned"
          /\ UNCHANGED handler
       \/ /\ handler' = "TimeoutExpired"
          /\ ipc' = "terminate"
          /\ UNCHANGED << child, result >>
       \/ /\ handler' = "Exception"
          /\ ipc' = "terminate"
          /\ child' \in (IF child = "zombie" THEN { "zombie", "reaped" } ELSE { child })
          /\ UNCHANGED result
    /\ UNCHANGED << calls, returncode, spawned, ops, orphans >>
    /\ UNCHANGED << executorVars, auditorVars, toolVars >>

\* _kill_process_tree, line 92: process.terminate().  It signals the child;
\* when the child is gone it raises ProcessLookupError (lines 102-104), and
\* it can raise another exception (lines 105-106)
Terminate ==
    /\ ipc = "terminate"
    /\ ops' = Append(ops, "terminate")
    /\ \/ ipc' = "wait_grace"
       \/ child = "reaped" /\ ipc' = "handler_return"
       \/ ipc' = "best_effort"
    /\ UNCHANGED << calls, child, returncode, spawned, handler, result, orphans >>
    /\ UNCHANGED << executorVars, auditorVars, toolVars >>

\* _kill_process_tree, lines 94-97: process.wait(timeout=5) reaps the child
\* if it ends within the grace period and raises TimeoutExpired otherwise
WaitGrace ==
    /\ ipc = "wait_grace"
    /\ ops' = Append(ops, "wait(5)")
    /\ IF child = "running"
       THEN /\ ipc' = "kill"
            /\ UNCHANGED child
       ELSE /\ child' = "reaped"
            /\ ipc' = "handler_return"
    /\ UNCHANGED << calls, returncode, spawned, handler, result, orphans >>
    /\ UNCHANGED << executorVars, auditorVars, toolVars >>

\* _kill_process_tree, line 99: process.kill(), which can raise (line 105)
Kill ==
    /\ ipc = "kill"
    /\ ops' = Append(ops, "kill")
    /\ \/ ipc' = "wait_reap"
       \/ ipc' = "best_effort"
    /\ UNCHANGED << calls, child, returncode, spawned, handler, result, orphans >>
    /\ UNCHANGED << executorVars, auditorVars, toolVars >>

\* _kill_process_tree, line 100: process.wait() blocks until the child has
\* ended and reaps it
WaitReap ==
    /\ ipc = "wait_reap"
    /\ child # "running"
    /\ child' = "reaped"
    /\ ops' = Append(ops, "wait()")
    /\ ipc' = "handler_return"
    /\ UNCHANGED << calls, returncode, spawned, handler, result, orphans >>
    /\ UNCHANGED << executorVars, auditorVars, toolVars >>

\* mutant of BestEffortKill: an exception of the second process.kill() is not
\* swallowed and leaves invoke_claude
BestEffortKill_ExceptionEscapes ==
    /\ ipc = "best_effort"
    /\ ops' = Append(ops, "kill")
    /\ child' \in (IF child = "zombie" THEN { "zombie", "reaped" } ELSE { child })
    /\ ipc' \in { "handler_return", "raised" }
    /\ UNCHANGED << calls, returncode, spawned, handler, result, orphans >>
    /\ UNCHANGED << executorVars, auditorVars, toolVars >>

\* _kill_process_tree, lines 105-110: process.kill() with every exception
\* swallowed; the child is not waited for (send_signal polls first and so
\* may reap a child that has already ended)
BestEffortKill ==
    /\ ipc = "best_effort"
    /\ ops' = Append(ops, "kill")
    /\ child' \in (IF child = "zombie" THEN { "zombie", "reaped" } ELSE { child })
    /\ ipc' = "handler_return"
    /\ UNCHANGED << calls, returncode, spawned, handler, result, orphans >>
    /\ UNCHANGED << executorVars, auditorVars, toolVars >>

\* lines 68 and 79: the return statement of the except clause
HandlerReturn ==
    /\ ipc = "handler_return"
    /\ result' = (IF handler = "TimeoutExpired" THEN TimeoutResult(Timeout) ELSE ErrorResult)
    /\ ipc' = "returned"
    /\ UNCHANGED << calls, child, returncode, spawned, ops, handler, orphans >>
    /\ UNCHANGED << executorVars, auditorVars, toolVars >>

NextInvoke ==
    \/ StartInvoke
    \/ Popen
    \/ ChildExits
    \/ Communicate
    \/ Terminate
    \/ WaitGrace
    \/ Kill
    \/ WaitReap
    \/ BestEffortKill
    \/ HandlerReturn

SpecInvoke == InitInvoke /\ [][NextInvoke]_vars

(***************************************************************************)
(* Properties of execute_story                                             *)
(***************************************************************************)
\* execute_story has returned
Returned == pc = "done" /\ returned.result # "NONE"

\* C1 as stated: for every ExecutorConfig the ExecutionOutput returned by
\* execute_story has iterations <= config.max_retries
C1_IterationsAtMostMaxRetries ==
    Returned => returned.iterations <= config.max_retries

\* C1 amended: the ExecutionOutput returned by execute_story has
\* iterations <= config.max_retries when max_retries >= 0, and iterations = 0
\* when max_retries is negative
C1_IterationsWithinBudget ==
    Returned =>
        /\ config.max_retries >= 0 => returned.iterations <= config.max_retries
        /\ config.max_retries < 0 => returned.iterations = 0

\* C1 witness: the circuit breaker returned after max_retries >= 2 iterations
C1_BudgetExhausted ==
    /\ Returned
    /\ returned.result = "FAILED"
    /\ config.max_retries >= 2
    /\ returned.iterations = config.max_retries

\* the auditor has just returned ESCALATE
Escalated == last_call.phase = "auditor" /\ last_call.status = "ESCALATE"

\* C2: once the auditor returns ESCALATE in an iteration, execute_story
\* returns ESCALATED at that iteration with escalation_reason equal to the
\* audit reason, and no coder, validator or auditor call is made afterwards
\* for that story
C2_EscalationIsTerminal ==
    /\ [](Escalated =>
            /\ Returned
            /\ returned.result = "ESCALATED"
            /\ returned.iterations = last_call.iteration
            /\ returned.escalation_reason = last_call.text)
    /\ [][Escalated => (call_log' = call_log \/ pc' = "idle")]_vars

\* C2 witness: an escalation in a second or later iteration, with retries left
C2_EscalatedWithRetriesLeft ==
    /\ Escalated
    /\ Returned
    /\ last_call.iteration >= 2
    /\ last_call.iteration < config.max_retries
    /\ last_call.text # << >>

\* the coder succeeded and the validator failed in every iteration made, and
\* at least one iteration was made
ValidatorAlwaysFailed ==
    /\ Returned
    /\ failed_phases = { "validator" }
    /\ last_call.phase = "validator"
    /\ last_call.status = "failed"

\* C4: if the coder succeeds and the validator fails in every iteration,
\* execute_story returns FAILED with iterations == max_retries and last_error
\* equal to the validation output of the final iteration
C4_ValidatorAlwaysFails ==
    ValidatorAlwaysFailed =>
        /\ returned.result = "FAILED"
        /\ returned.iterations = config.max_retries
        /\ returned.last_error = last_call.text

\* C4 witness: two or more iterations, the last validation output is not empty
C4_FailedAfterRetries ==
    /\ ValidatorAlwaysFailed
    /\ returned.iterations >= 2
    /\ returned.last_error # << >>
    /\ prev_failure.text # last_call.text

\* the phase calls of an iteration in which the coder exits 0, the validator
\* passes and the audit is disabled or returns PASS
PassingCalls ==
    << Called("coder", "0"), Called("validator", "passed") >>
        \o (IF config.enable_audit THEN << Called("auditor", "PASS") >> ELSE << >>)

\* C5: execute_story returns SUCCESS at the first iteration k <= max_retries
\* in which the coder exits 0, the validator passes and the audit is disabled
\* or returns PASS, with iterations == k, and in no other situation; when
\* this is iteration 1, each enabled phase has been called exactly once
C5_SuccessAtFirstPassingIteration ==
    /\ (pc \notin { "idle", "load" } /\ phase_calls = PassingCalls) =>
            /\ Returned
            /\ returned.result = "SUCCESS"
            /\ returned.iterations = attempt
            /\ 1 <= attempt /\ attempt <= config.max_retries
    /\ (Returned /\ returned.result = "SUCCESS") =>
            /\ phase_calls = PassingCalls
            /\ last_call.iteration = returned.iterations
            /\ returned.iterations = 1 =>
                   call_log = [ coder |-> 1, validator |-> 1,
                                auditor |-> IF config.enable_audit THEN 1 ELSE 0 ]

\* C5 witness: SUCCESS in a second or later iteration, after an audit
C5_SuccessAfterRetry ==
    /\ Returned
    /\ returned.result = "SUCCESS"
    /\ returned.iterations >= 2
    /\ config.enable_audit

\* the error-context section of a coder prompt that shows the text err
ErrorSection(err) == << Fence, NL >> \o err \o << NL, Fence >>

\* C6: whenever an iteration fails and another iteration follows, the error
\* or feedback text recorded for the failed iteration appears verbatim in the
\* error-context section of the next coder prompt; after a validator failure
\* the next coder prompt contains that validator's output verbatim
C6_ErrorTextVerbatimInNextPrompt ==
    (pc = "coder" /\ attempt >= 2) =>
        /\ error_context # << >> => Contains(prompt, ErrorSection(error_context))
        /\ prev_failure.phase = "validator" => Contains(prompt, prev_failure.text)

\* the auditor returned RETRY in the call c
AuditRetry(c) == c.phase = "auditor" /\ c.status = "RETRY"

\* C7: when the auditor returns RETRY with feedback F in an iteration
\* k < max_retries, the story is not finished at k, iteration k+1 runs and
\* its coder prompt contains F; if iteration k+1 passes all phases the result
\* is SUCCESS with iterations == k+1
C7_AuditRetryFeedsNextIteration ==
    /\ (AuditRetry(last_call) /\ last_call.iteration < config.max_retries) =>
            /\ ~ Returned
            /\ pc \in { "loop", "coder" }
            /\ pc = "loop" => LoopContinues
    /\ (AuditRetry(prev_failure) /\ pc # "loop") =>
            /\ attempt = prev_failure.iteration + 1
            /\ Contains(prompt, prev_failure.text)
            /\ phase_calls = PassingCalls =>
                   returned.result = "SUCCESS" /\ returned.iterations = attempt

\* the coder has failed in the call c
CoderCallFailed(c) == c.phase = "coder" /\ c.status # "0"

\* what C8 says of an iteration whose coder call failed, but for the error
\* context: the validator and the auditor are not called in that iteration
\* and the outcome is a retry, never ESCALATED
CoderFailureIsRetried ==
    /\ returned.result \in { "NONE", "FAILED" }
    /\ pc \in { "loop", "coder", "done" }
    /\ pc \in { "loop", "done" } =>
           /\ phase_calls = << Called("coder", last_call.status) >>
           /\ attempt = last_call.iteration
    /\ pc = "coder" => attempt = last_call.iteration + 1

\* C8 as stated: when the coder process exits with a non-zero code, neither
\* the validator nor the auditor is called in that iteration, the outcome is
\* a retry (never ESCALATED), and the error context of the next iteration
\* equals the coder's stderr
C8_CoderFailureContextIsStderr ==
    CoderCallFailed(last_call) =>
        /\ CoderFailureIsRetried
        /\ pc = "coder" => error_context = last_call.text

\* C8 amended: when the coder process exits with a non-zero code, neither
\* the validator nor the auditor is called in that iteration, the outcome is
\* a retry (never ESCALATED), and the error context of the next iteration
\* equals the coder's stderr, or the fixed text "Claude invocation failed"
\* when that stderr is empty
C8_CoderFailureContext ==
    CoderCallFailed(last_call) =>
        /\ CoderFailureIsRetried
        /\ (pc = "coder" /\ last_call.text # << >>) => error_context = last_call.text
        /\ (pc = "coder" /\ last_call.text = << >>) =>
               error_context = << "Claude invocation failed" >>

\* C8 witness: the iteration after a coder failure that wrote nothing to stderr
C8_RetryAfterSilentCoderFailure ==
    /\ CoderCallFailed(last_call)
    /\ pc = "coder"
    /\ last_call.text = << >>

\* the sequences of phase calls an iteration can consist of
OrderedCalls ==
    LET coder == { << Called("coder", x) >> : x \in { "0", "1", "-1" } }
        validator == { << Called("coder", "0"), Called("validator", x) >> :
                         x \in { "passed", "failed" } }
        auditor == { << Called("coder", "0"), Called("validator", "passed"),
                        Called("auditor", x) >> : x \in { "PASS", "RETRY", "ESCALATE" } }
    IN  { << >> } \cup coder \cup validator \cup auditor

\* C9: within one iteration the phases are called strictly in the order
\* coder, validator, auditor, a later phase only after the earlier one
\* succeeded; iterations run in strictly increasing order; no phase of an
\* earlier iteration is called after a later iteration has started
C9_PhaseOrder ==
    /\ [](phase_calls \in OrderedCalls)
    /\ [][(stories' = stories /\ pc # "done") =>
            /\ attempt' \in { attempt, attempt + 1 }
            /\ attempt' = attempt + 1 => phase_calls' = << >>
            /\ call_log' # call_log =>
                   /\ attempt' = attempt
                   /\ last_call'.iteration = attempt
                   /\ Len(phase_calls') = Len(phase_calls) + 1]_vars

\* C9 witness: a full iteration, coder then validator then auditor, after an
\* earlier iteration
C9_ThreePhasesInOrder ==
    /\ Len(phase_calls) = 3
    /\ attempt >= 2

\* C10: during one execute_story call the iteration counter starts at zero,
\* increases by exactly one on every pass through the loop whichever phase
\* failed, and never decreases; it is reset to zero only when a new story
\* execution starts
C10_IterationCounter ==
    /\ [](pc = "load" => iterations = 0)
    /\ []((pc = "loop" /\ phase_calls = << >>) => iterations = 0)
    /\ [][/\ (pc = "loop" /\ pc' = "coder") => iterations' = iterations + 1
          /\ iterations' # iterations =>
                \/ iterations' = iterations + 1 /\ pc = "loop" /\ stories' = stories
                \/ iterations' = 0 /\ stories' = stories + 1]_vars

\* C10 witness: the third pass of the second execution, after failures of
\* two different phases
C10_ThirdPassOfSecondStory ==
    /\ stories = 2
    /\ iterations = 3
    /\ Cardinality(failed_phases) >= 2

\* the phase call c ended in a timeout: invoke_claude returned exit code -1
\* and its timeout message to the coder phase, or the validation command
\* timed out
PhaseTimedOut(c) ==
    \/ /\ c.phase = "coder"
       /\ c.status = "-1"
       /\ c.text = TimeoutResult(config.claude_timeout).stderr
    \/ c.phase = "validator" /\ c.text = << "Validation command timed out after 120s" >>

C12_MissingTemplateAborts ==
    /\ []((pc \notin { "idle", "load" } /\ prompt_file = None) =>
            /\ Returned
            /\ returned = ExecutionOutput("FAILED", story, 0,
                               << "Coder prompt not found: ", "coder_prompt_path" >>, << >>)
            /\ attempt = 0
            /\ iterations = 0
            /\ call_log = NoCalls
            /\ phase_calls = << >>)
    /\ [][(pc = "load" /\ prompt_file = None) => pc' = "done"]_vars

\* C12 witness: a call with retries configured has returned for want of the
\* template, after an earlier call that made iterations
C12_AbortedWithoutTemplate ==
    /\ Returned
    /\ prompt_file = None
    /\ config.max_retries >= 2
    /\ stories = 2

\* C13 as stated: every ExecutionOutput returned by execute_story has an
\* iteration count of at least 1 (1 <= iterations <= max_retries), for every
\* configuration and every outcome of the phases
C13_IterationsAtLeastOne ==
    Returned => (1 <= returned.iterations /\ returned.iterations <= config.max_retries)

\* C13 amended: an ExecutionOutput returned by execute_story has
\* iterations = 0 when the coder prompt template is missing or max_retries is
\* not positive, and 1 <= iterations <= max_retries in every other case
C13_IterationsZeroOrInRange ==
    Returned =>
        IF prompt_file = None \/ config.max_retries <= 0
        THEN returned.iterations = 0
        ELSE 1 <= returned.iterations /\ returned.iterations <= config.max_retries

\* C13 witness: with the template present and max_retries = 0 the loop body
\* never ran and the circuit breaker returned zero iterations
C13_ReturnedWithoutIteration ==
    /\ Returned
    /\ prompt_file # None
    /\ config.max_retries = 0
    /\ returned.result = "FAILED"
    /\ returned.iterations = 0
    /\ call_log = NoCalls

\* the number of calls of the phase p in the current iteration
CallsInIteration(p) ==
    Cardinality({ i \in 1..Len(phase_calls) : phase_calls[i].phase = p })

\* what C14 says of the phase calls of an iteration: at most one coder call,
\* one validator call and, if the audit is enabled, one auditor call, the
\* iterations so far accounting for every call made
OneCallPerIteration ==
    /\ \A p \in { "coder", "validator", "auditor" } : CallsInIteration(p) <= 1
    /\ ~ config.enable_audit => call_log.auditor = 0
    /\ call_log.coder <= attempt
    /\ call_log.validator <= call_log.coder
    /\ call_log.auditor <= call_log.validator

\* what C14 says of the result: a call in progress has produced no
\* ExecutionOutput, a call that returns produces one, and it is not replaced
\* until the next call starts
ExactlyOneOutput ==
    /\ [](pc \in { "load", "loop", "coder", "validate", "audit" } => returned = NoOutput)
    /\ [](pc = "done" => returned.result \in { "SUCCESS", "FAILED", "ESCALATED" })
    /\ [][returned' # returned =>
             \/ returned = NoOutput /\ pc # "done" /\ pc' = "done"
             \/ returned' = NoOutput /\ stories' = stories + 1]_vars

\* C14 as stated: every call of execute_story terminates and produces
\* exactly one ExecutionOutput, after at most max_retries coder invocations,
\* with at most one coder call, one validator call and (if enabled) one
\* auditor call per iteration
C14_TerminatesWithinMaxRetriesCalls ==
    /\ (pc = "load") ~> Returned
    /\ ExactlyOneOutput
    /\ [](OneCallPerIteration)
    /\ [](Returned => call_log.coder <= config.max_retries)

\* C14 amended: every call of execute_story terminates and produces exactly
\* one ExecutionOutput, after at most max_retries coder invocations when
\* max_retries >= 0 and after none when max_retries is negative, with at most
\* one coder call, one validator call and (if enabled) one auditor call per
\* iteration
C14_TerminatesWithinBudget ==
    /\ (pc = "load") ~> Returned
    /\ ExactlyOneOutput
    /\ [](OneCallPerIteration)
    /\ [](Returned => call_log.coder <= (IF config.max_retries >= 0
                                        THEN config.max_retries ELSE 0))

\* C14 witness: a call returned after the largest number of coder invocations,
\* one in each iteration, the audit enabled
C14_ReturnedAfterAllCoderCalls ==
    /\ Returned
    /\ config.enable_audit
    /\ config.max_retries = MaxRetriesBound
    /\ call_log.coder = MaxRetriesBound
    /\ call_log.auditor >= 1

(***************************************************************************)
(* Properties of invoke_claude                                             *)
(***************************************************************************)
\* invoke_claude has returned from its TimeoutExpired clause
ReturnedAfterTimeout == ipc = "returned" /\ handler = "TimeoutExpired"

\* C15: when the child process exceeds the timeout, invoke_claude first sends
\* terminate, waits a bounded grace period, sends kill only if the child is
\* still alive after the grace period, always reaps the child with wait, and
\* then returns ("", a stderr message naming the timeout, -1)
C15_TimeoutKillSequence ==
    ReturnedAfterTimeout =>
        /\ ops # << >>
        /\ ops[1] = "terminate"
        /\ \A i \in 1..Len(ops) : ops[i] = "kill" => (i > 1 /\ ops[i - 1] = "wait(5)")
        /\ child = "reaped"
        /\ result = TimeoutResult(Timeout)

\* C16: each invoke_claude call spawns exactly one child process, and on
\* every path (normal exit, timeout, error during terminate or kill,
\* unexpected exception after spawn) the call does not return while that
\* child is still alive or unreaped
C16_NoChildLeftBehind ==
    /\ spawned <= 1
    /\ ipc \notin { "idle", "popen", "returned" } => spawned = 1
    /\ ipc = "returned" => child \in { "none", "reaped" }

\* the fixed prefixes of the stderr of an invoker-side failure: "Timeout:",
\* "Error: 'claude' command not found", "Error:"
FailurePrefixes ==
    { "Timeout: Process killed after ", "Error: claude command not found in PATH",
      "Error: " }

\* C17: invoke_claude returns the child's real exit code when the child
\* completes within the timeout, and returns exit code -1 only for
\* invoker-side failures (timeout, missing binary, unexpected error), each
\* identified by its own fixed stderr prefix; a result with exit code -1
\* therefore always carries one of these prefixes
C17_MinusOneOnlyFromInvoker ==
    ipc = "returned" =>
        /\ handler = "none" => ToString(result.exit_code) = returncode
        /\ handler = "TimeoutExpired" => result.stderr[1] = "Timeout: Process killed after "
        /\ handler = "FileNotFoundError" =>
               result.stderr[1] = "Error: claude command not found in PATH"
        /\ handler = "Exception" => result.stderr[1] = "Error: "
        /\ result.exit_code = -1 =>
               /\ handler # "none"
               /\ result.stderr # << >>
               /\ result.stderr[1] \in FailurePrefixes

(***************************************************************************)
(* _parse_verdict applied to every bounded raw output                      *)
(***************************************************************************)
InitParse ==
    /\ ExecutorIdle
    /\ InvokerOff
    /\ ToolsOff
    /\ pc = "off"
    /\ apc = "called"
    /\ raw_output \in RawOutputs
    /\ audit_result = NoAuditResult
    /\ AuditIdle

\* a call of _parse_verdict(raw_output) runs to its return
ParseVerdict ==
    /\ apc = "called"
    /\ audit_result' = _parse_verdict(raw_output)
    /\ apc' = "returned"
    /\ UNCHANGED << raw_output, audit_args, auditor_file, session, audit_prompt,
                    audit_invoked, audit_returned, audits, processes, audit_log >>
    /\ UNCHANGED << executorVars, invokerVars, toolVars >>

NextParse == ParseVerdict

SpecParse == InitParse /\ [][NextParse]_vars

(***************************************************************************)
(* Properties of _parse_verdict                                            *)
(***************************************************************************)
\* the kinds of verdict line an output contains: a standalone PASS line, a
\* line beginning RETRY:, a line beginning ESCALATE:
VerdictLineKinds(s) ==
    { kind \in { "PASS", "RETRY:", "ESCALATE:" } :
        \E i \in 1..Len(s) :
            /\ LineStart(s, i)
            /\ s[i] = kind
            /\ kind = "PASS" =>
                  \E j \in i..Len(s) :
                      /\ \A k \in (i + 1)..j : s[k] = " "
                      /\ LineEnd(s, j) }

\* C3: _parse_verdict never upgrades ambiguous auditor output to PASS: for
\* every raw output that does not contain exactly one kind of verdict line
\* (none at all, or lines of more than one kind) the returned verdict is RETRY
C3_AmbiguousOutputIsRetry ==
    (apc = "returned" /\ Cardinality(VerdictLineKinds(Strip(raw_output))) # 1)
        => audit_result.verdict = "RETRY"

\* C18: for every auditor output that contains a line consisting exactly of
\* PASS, _parse_verdict returns verdict PASS with empty feedback and empty
\* reason
C18_ExactPassLineIsPass ==
    (/\ apc = "returned"
     /\ \E i \in 1..Len(raw_output) :
           raw_output[i] = "PASS" /\ LineStart(raw_output, i) /\ LineEnd(raw_output, i))
        => audit_result = AuditResult("PASS", << >>, << >>)

\* C18 witness: an exact PASS line after a line beginning RETRY:
C18_PassLineAfterRetryLine ==
    /\ apc = "returned"
    /\ raw_output = << "RETRY:", "text", NL, "PASS" >>
    /\ audit_result.verdict = "PASS"

\* the positions of the lines of s that begin with the keyword kw
KeywordLines(s, kw) == { i \in 1..Len(s) : LineStart(s, i) /\ s[i] = kw }

\* the positions of the lines of s that begin with the keyword kw and are
\* followed, in the rest of s, by something other than white space
KeywordLinesWithText(s, kw) ==
    { i \in KeywordLines(s, kw) : \E k \in (i + 1)..Len(s) : ~ IsSpace(s[k]) }

\* the least element of a non-empty set of positions
Leftmost(S) == CHOOSE m \in S : \A n \in S : m <= n

\* the remainder of s after the keyword at position i, cut at the first code
\* fence when one occurs in it, without the white space around it
RemainderAfter(s, i) ==
    LET rest == Strip(SubSeq(s, i + 1, Len(s)))
        fences == { k \in 1..Len(rest) : rest[k] = Fence }
    IN  IF fences = { } THEN rest ELSE Strip(SubSeq(rest, 1, Leftmost(fences) - 1))

\* C19 as stated: for every auditor output without a standalone PASS line, a
\* line beginning RETRY: yields verdict RETRY with feedback equal to the
\* remainder of the output after RETRY:, and otherwise a line beginning
\* ESCALATE: yields verdict ESCALATE with reason equal to the remainder after
\* ESCALATE:; in both cases the remainder is cut at the first code fence
C19_KeywordLineGivesRemainder ==
    LET out == Strip(raw_output)
        retry == KeywordLines(out, "RETRY:")
        escalate == KeywordLines(out, "ESCALATE:")
    IN  (apc = "returned" /\ "PASS" \notin VerdictLineKinds(out)) =>
            /\ retry # { } =>
                   audit_result = AuditResult("RETRY",
                                      RemainderAfter(out, Leftmost(retry)), << >>)
            /\ (retry = { } /\ escalate # { }) =>
                   audit_result = AuditResult("ESCALATE", << >>,
                                      RemainderAfter(out, Leftmost(escalate)))

\* C19 amended: for every auditor output without a standalone PASS line, a
\* line beginning RETRY: that is followed by some text other than white
\* space yields verdict RETRY with feedback equal to the remainder of the
\* output after RETRY:, and otherwise a line beginning ESCALATE: that is
\* followed by such text yields verdict ESCALATE with reason equal to the
\* remainder after ESCALATE:; in both cases the remainder is cut at the first
\* code fence.  A RETRY: or ESCALATE: with nothing after it is not a verdict
\* line
C19_KeywordLineWithTextGivesRemainder ==
    LET out == Strip(raw_output)
        retry == KeywordLinesWithText(out, "RETRY:")
        escalate == KeywordLinesWithText(out, "ESCALATE:")
    IN  (apc = "returned" /\ "PASS" \notin VerdictLineKinds(out)) =>
            /\ retry # { } =>
                   audit_result = AuditResult("RETRY",
                                      RemainderAfter(out, Leftmost(retry)), << >>)
            /\ (retry = { } /\ escalate # { }) =>
                   audit_result = AuditResult("ESCALATE", << >>,
                                      RemainderAfter(out, Leftmost(escalate)))

\* C19 witness: ESCALATE returned for an output whose last line is a RETRY:
\* with nothing after it
C19_EscalateBeforeEmptyRetry ==
    /\ apc = "returned"
    /\ audit_result.verdict = "ESCALATE"
    /\ audit_result.reason = << "text", NL, "RETRY:" >>
    /\ KeywordLines(Strip(raw_output), "RETRY:") # { }

\* the number of characters of a token or of a cut long text
TokenChars(t) ==
    IF t \in OutputTokens THEN CharLen(t)
    ELSE CHOOSE n \in 0..LongTextLen : t = CutToken(LongText, n)

RECURSIVE CharCount(_)
\* the number of characters of a text
CharCount(s) == IF s = << >> THEN 0 ELSE TokenChars(Head(s)) + CharCount(Tail(s))

\* e consists of the first characters of s
IsCharPrefix(e, s) ==
    \/ /\ Len(e) <= Len(s)
       /\ e = SubSeq(s, 1, Len(e))
    \/ /\ e # << >>
       /\ Len(e) <= Len(s)
       /\ SubSeq(e, 1, Len(e) - 1) = SubSeq(s, 1, Len(e) - 1)
       /\ \E n \in 0..CharLen(s[Len(e)]) : e[Len(e)] = CutToken(s[Len(e)], n)

\* C20: for every auditor output that has no standalone PASS line, no RETRY:
\* line and no ESCALATE: line (including the empty output), _parse_verdict
\* returns RETRY with a feedback that marks the output as unclear and
\* contains an excerpt of the raw text bounded to its first 500 characters
C20_NoVerdictLineIsUnclearRetry ==
    LET out == Strip(raw_output)
        excerpt == Tail(audit_result.feedback)
    IN  (apc = "returned" /\ VerdictLineKinds(out) = { }) =>
            /\ audit_result.verdict = "RETRY"
            /\ audit_result.reason = << >>
            /\ audit_result.feedback # << >>
            /\ Head(audit_result.feedback) = "Auditor output was unclear. Raw output: "
            /\ IsCharPrefix(excerpt, out)
            /\ CharCount(excerpt) = (IF CharCount(out) <= 500 THEN CharCount(out) ELSE 500)

\* C20 witness: an output of more than 500 characters without a verdict
\* line, its verdict keyword not at the beginning of a line
C20_LongUnclearOutput ==
    /\ apc = "returned"
    /\ raw_output = << "text", " ", "PASS", LongText >>
    /\ audit_result.feedback =
           << "Auditor output was unclear. Raw output: ", "text", " ", "PASS",
              CutToken(LongText, 491) >>

(***************************************************************************)
(* micro_v/auditor.py: audit_implementation                                *)
(***************************************************************************)
\* number of audit_implementation calls made in one behaviour
MaxAudits == 2

\* the timeout argument of audit_implementation, its default
AuditTimeout == "180"

\* contents of the file at prompt_path; None: no such file
AuditorTemplates == { None, << "SPEC:", "{{spec}}", "DIFF:", "{{diff}}" >> }

\* the spec arguments of audit_implementation
AuditSpecs == { << "Test spec" >>, << "spec with", "{{diff}}" >> }

\* the diff arguments of audit_implementation
AuditDiffs == { << "Test diff" >>, << "+ def sum" >> }

\* what a coding session can hold when the auditor is called
Sessions ==
    { NoSession,
      [ coder_prompt |-> << "# Coder Prompt" >>, coder_output |-> << "Code written" >>,
        error_context |-> << "TypeError: missing argument" >> ] }

\* what the auditor process writes to stdout
AuditorStdouts ==
    { << "PASS" >>, << "RETRY:", " ", "text" >>, << "ESCALATE:", " ", "text" >>,
      << "text" >> }

\* what invoke_claude can return to audit_implementation
AuditorResults(timeout) ==
    [ stdout : AuditorStdouts, stderr : { << >>, << "Timeout error" >> },
      exit_code : ReturnCodes ]
        \cup { TimeoutResult(timeout), NotFoundResult, ErrorResult }

\* shared/claude.py line 50: whether invoke_claude spawned a child process
\* before it returned r.  FileNotFoundError is raised by Popen itself; another
\* exception by Popen or by communicate
Spawns(r) ==
    IF r = NotFoundResult THEN { FALSE }
    ELSE IF r = ErrorResult THEN BOOLEAN
    ELSE { TRUE }

\* the prompt also carries the error context of the coding session
_format_auditor_prompt_WithSession(tmpl, spec, diff) ==
    Replace(Replace(tmpl, "{{spec}}", spec), "{{diff}}", diff) \o session.error_context

\* lines 73-75: the second replace is applied to the value of the first
_format_auditor_prompt(tmpl, spec, diff) ==
    CHOOSE r2 \in { Replace(r1, "{{diff}}", diff) :
                      r1 \in { Replace(tmpl, "{{spec}}", spec) } } : TRUE

\* only the failures of invoke_claude itself count
InvocationFailed_MinusOneOnly(exit_code) == exit_code = -1

\* line 168
InvocationFailed(exit_code) == exit_code # 0

InitAudit ==
    /\ ExecutorIdle
    /\ pc = "off"
    /\ InvokerOff
    /\ ToolsOff
    /\ apc = "idle"
    /\ raw_output = << >>
    /\ audit_result = NoAuditResult
    /\ AuditIdle

\* a caller calls audit_implementation(spec, diff) at some point of a coding
\* session, with some content of the file at prompt_path
StartAudit ==
    /\ apc \in { "idle", "raised", "done" }
    /\ audits < MaxAudits
    /\ audits' = audits + 1
    /\ \E sp \in AuditSpecs, df \in AuditDiffs :
           audit_args' = [ spec |-> sp, diff |-> df ]
    /\ auditor_file' \in AuditorTemplates
    /\ session' \in Sessions
    /\ audit_prompt' = << >>
    /\ audit_invoked' = NoResult
    /\ audit_returned' = NoAuditResult
    /\ raw_output' = << >>
    /\ audit_result' = NoAuditResult
    /\ apc' = "load"
    /\ UNCHANGED << processes, audit_log >>
    /\ UNCHANGED << executorVars, invokerVars, toolVars >>

\* lines 150-155: _load_auditor_prompt; a missing file raises AuditorError
LoadAuditorPrompt ==
    /\ apc = "load"
    /\ apc' = (IF auditor_file = None THEN "raised" ELSE "invoke")
    /\ UNCHANGED << raw_output, audit_result, audit_args, auditor_file, session,
                    audit_prompt, audit_invoked, audit_returned, audits, processes,
                    audit_log >>
    /\ UNCHANGED << executorVars, invokerVars, toolVars >>

\* lines 158-166: the prompt is formatted and sent by invoke_claude, which
\* spawns one child process per call and returns its tuple
InvokeAuditor ==
    /\ apc = "invoke"
    /\ audit_prompt' = _format_auditor_prompt(auditor_file, audit_args.spec, audit_args.diff)
    /\ \E r \in AuditorResults(AuditTimeout), spawn \in BOOLEAN :
           /\ spawn \in Spawns(r)
           /\ audit_invoked' = r
           /\ processes' = processes + (IF spawn THEN 1 ELSE 0)
           /\ audit_log' = Append(audit_log,
                  [ template |-> auditor_file, spec |-> audit_args.spec,
                    diff |-> audit_args.diff, session |-> session,
                    prompt |-> audit_prompt',
                    process |-> IF spawn THEN processes' ELSE 0 ])
    /\ apc' = "verdict"
    /\ UNCHANGED << raw_output, audit_result, audit_args, auditor_file, session,
                    audit_returned, audits >>
    /\ UNCHANGED << executorVars, invokerVars, toolVars >>

\* lines 168-189: an invocation failure is a RETRY that carries stderr or a
\* fixed text; otherwise the verdict is parsed from stdout
AuditVerdict ==
    /\ apc = "verdict"
    /\ IF InvocationFailed(audit_invoked.exit_code)
       THEN /\ audit_returned' =
                   AuditResult("RETRY",
                       << "Auditor invocation failed: " >> \o
                           (IF audit_invoked.stderr # << >> THEN audit_invoked.stderr
                            ELSE << "Claude invocation failed" >>),
                       << >>)
            /\ UNCHANGED << raw_output, audit_result >>
       ELSE /\ raw_output' = audit_invoked.stdout
            /\ audit_result' = _parse_verdict(audit_invoked.stdout)
            /\ audit_returned' = audit_result'
    /\ apc' = "done"
    /\ UNCHANGED << audit_args, auditor_file, session, audit_prompt, audit_invoked,
                    audits, processes, audit_log >>
    /\ UNCHANGED << executorVars, invokerVars, toolVars >>

NextAudit ==
    \/ StartAudit
    \/ LoadAuditorPrompt
    \/ InvokeAuditor
    \/ AuditVerdict

SpecAudit == InitAudit /\ [][NextAudit]_vars

(***************************************************************************)
(* Properties of audit_implementation                                      *)
(***************************************************************************)
\* C21: when the auditor process ends with a non-zero code,
\* audit_implementation returns the verdict RETRY, never PASS or ESCALATE,
\* whatever the process wrote to stdout, with a feedback that carries the
\* invocation error: stderr, or a fixed text when stderr is empty
C21_InvocationFailureIsRetry ==
    (apc = "done" /\ audit_invoked.exit_code # 0) =>
        /\ audit_returned.verdict = "RETRY"
        /\ audit_returned.reason = << >>
        /\ audit_returned.feedback =
               << "Auditor invocation failed: " >> \o
                   (IF audit_invoked.stderr = << >> THEN << "Claude invocation failed" >>
                    ELSE audit_invoked.stderr)

\* the auditor process wrote PASS and ended with code 1
C21_FailedProcessWrotePass ==
    /\ apc = "done"
    /\ audit_invoked.exit_code = 1
    /\ audit_invoked.stdout = << "PASS" >>
    /\ audit_invoked.stderr = << "Timeout error" >>
    /\ audit_returned.verdict = "RETRY"

Commands == { "", "pytest" }

\* what the validation command writes to stdout and to stderr
CommandTexts == { << >>, << "All tests passed" >>, << "Test failed" >> }

\* what subprocess.run can do with a command
SubprocessOutcomes ==
    { Completed(c, out, err) : c \in { 0, 1, 2, -9 }, out \in CommandTexts,
                               err \in CommandTexts }
        \cup { TimeoutExpired }
        \cup { Raised(m) : m \in { "Command not found", "OSError", "" } }

InitValidation ==
    /\ ExecutorIdle
    /\ pc = "off"
    /\ AuditorOff
    /\ InvokerOff
    /\ CliOff
    /\ GitOff
    /\ ProgressOff
    /\ vpc = "called"
    /\ command \in Commands
    /\ outcome \in SubprocessOutcomes
    /\ validation = NoValidation

\* a call of _run_validation(command, working_dir) runs to its return, or to
\* the exception that leaves it
ReturnValidation ==
    /\ vpc = "called"
    /\ LET r == _run_validation_of(command, outcome)
       IN  IF r.raised
           THEN /\ vpc' = "raised"
                /\ UNCHANGED validation
           ELSE /\ vpc' = "returned"
                /\ validation' = [ passed |-> r.passed, output |-> r.output ]
    /\ UNCHANGED << command, outcome >>
    /\ UNCHANGED << executorVars, auditorVars, invokerVars, cliVars, gitVars,
                    progressVars >>

NextValidation == ReturnValidation

SpecValidation == InitValidation /\ [][NextValidation]_vars

(***************************************************************************)
(* Properties of _run_validation                                           *)
(***************************************************************************)
\* C23: _run_validation never raises and returns a (bool, text) pair for
\* every command and every outcome of running it.  The bool is true iff the
\* command is empty (the text is then empty) or the command ends with code 0;
\* a timeout gives (False, the fixed timed-out message) and another exception
\* gives (False, a text that contains the message of the exception)
C23_RunValidationIsTotal ==
    /\ vpc # "raised"
    /\ vpc = "returned" =>
          /\ validation.passed \in BOOLEAN
          /\ validation.output \in Seq(STRING)
          /\ validation.passed <=>
                 \/ command = ""
                 \/ outcome.kind = "completed" /\ outcome.returncode = 0
          /\ command = "" => validation.output = << >>
          /\ (command # "" /\ outcome.kind = "completed") =>
                 validation.output = outcome.stdout \o outcome.stderr
          /\ (command # "" /\ outcome.kind = "TimeoutExpired") =>
                 validation.output = << "Validation command timed out after 120s" >>
          /\ (command # "" /\ outcome.kind = "Exception") =>
                 Contains(validation.output, << outcome.message >>)

\* the command failed to start and _run_validation returned the message
C23_ExceptionReturned ==
    /\ vpc = "returned"
    /\ command = "pytest"
    /\ outcome = Raised("Command not found")
    /\ validation = [ passed |-> FALSE,
                      output |-> << "Validation command failed: ", "Command not found" >> ]

(***************************************************************************)
(* v_ralph.py: cmd_run, the git safety checks and the timeouts of a run    *)
(***************************************************************************)
\* iterations of the story a run makes at most
RunMaxRetries == 2

\* the built-in timeouts, in seconds
DEFAULT_VALIDATION_TIMEOUT == 120

DEFAULT_CODER_TIMEOUT == 300

DEFAULT_AUDIT_TIMEOUT == 180

\* executor.py line 135: the timeout _run_validation passes to subprocess.run
ValidationTimeout == 120

\* the arguments of a run that is not a dry run
RunArgs ==
    [ force : BOOLEAN,
      timeouts : [ validation : { NotGiven, 30 }, coder : { NotGiven, 500 },
                   audit : { NotGiven, 150 } ] ]

\* PRD files: one that does not load (or lacks the story asked for), and the
\* ones that load, with or without a pending story, with a timeouts object
Prds ==
    { [ loads |-> FALSE, pending |-> FALSE, timeouts |-> NoTimeouts ] }
        \cup [ loads : { TRUE }, pending : BOOLEAN,
               timeouts : [ validation : { NotGiven, 60 }, coder : { NotGiven, 600 },
                            audit : { NotGiven, 240 } ] ]

\* working directories: not a git repository, or a repository with or
\* without uncommitted changes, with HEAD detached or on a branch, with no
\* upstream, level with its upstream, or ahead of it
Repos ==
    { [ is_repo |-> FALSE, dirty |-> FALSE, upstream |-> "none", detached |-> FALSE ] }
        \cup [ is_repo : { TRUE }, dirty : BOOLEAN,
               upstream : { "none", "synced", "ahead" }, detached : BOOLEAN ]

GitSafetyCheck(check_type, unsafe, message) ==
    [ check_type |-> check_type, is_unsafe |-> unsafe, message |-> message ]

check_git_uncommitted_changes(r) ==
    IF ~ r.is_repo
    THEN GitSafetyCheck("uncommitted_changes", TRUE, "Could not check git status")
    ELSE IF r.dirty
    THEN GitSafetyCheck("uncommitted_changes", TRUE, "Uncommitted changes detected")
    ELSE GitSafetyCheck("uncommitted_changes", FALSE, "Working directory is clean")

\* without an upstream (also: outside a repository) there is nothing to push
check_git_unpushed_commits(r) ==
    IF ~ r.is_repo \/ r.upstream = "none"
    THEN GitSafetyCheck("unpushed_commits", FALSE, "No upstream branch configured")
    ELSE IF r.upstream = "ahead"
    THEN GitSafetyCheck("unpushed_commits", TRUE, "Unpushed commits detected")
    ELSE GitSafetyCheck("unpushed_commits", FALSE, "No unpushed commits")

check_git_detached_head(r) ==
    IF ~ r.is_repo
    THEN GitSafetyCheck("detached_head", TRUE, "Could not determine the branch")
    ELSE IF r.detached
    THEN GitSafetyCheck("detached_head", TRUE, "HEAD is detached")
    ELSE GitSafetyCheck("detached_head", FALSE, "On a branch (not detached)")

\* the override is ignored
Blocks_ForceIgnored(unsafe, force) == unsafe

\* the run is blocked when a check is unsafe, unless the override is set
Blocks(unsafe, force) == unsafe /\ ~ force

\* explicit per-run override, else the value of the PRD, else the default
Precedence(override, configured, default) ==
    IF override # NotGiven THEN override
    ELSE IF configured # NotGiven THEN configured
    ELSE default

\* ExecutionTimeouts.from_prd_and_args
from_prd_and_args(prd_data, overrides) ==
    [ validation |-> Precedence(overrides.validation, prd_data.timeouts.validation,
                                DEFAULT_VALIDATION_TIMEOUT),
      coder |-> Precedence(overrides.coder, prd_data.timeouts.coder,
                           DEFAULT_CODER_TIMEOUT),
      audit |-> Precedence(overrides.audit, prd_data.timeouts.audit,
                           DEFAULT_AUDIT_TIMEOUT) ]

InitRun ==
    /\ ExecutorIdle
    /\ pc = "off"
    /\ AuditorOff
    /\ InvokerOff
    /\ ValidatorOff
    /\ GitOff
    /\ ProgressOff
    /\ rpc = "start"
    /\ args \in RunArgs
    /\ repo \in Repos
    /\ prd \in Prds
    /\ CliIdle

\* the first check is the last one when it is unsafe
AfterCheck_ShortCircuit(check, following) ==
    IF check.is_unsafe THEN "checked" ELSE following

\* run_git_safety_checks goes on to the following check whatever a check found
AfterCheck(check, following) == following

\* run_git_safety_checks: the first check
CheckUncommitted ==
    /\ rpc = "start"
    /\ checks' = Append(checks, check_git_uncommitted_changes(repo))
    /\ rpc' = AfterCheck(checks'[Len(checks')], "unpushed")
    /\ UNCHANGED << args, repo, prd, is_unsafe, surfaced, timeouts, run_attempt,
                    applied, run_exit, executions >>
    /\ UNCHANGED << executorVars, auditorVars, invokerVars, validatorVars, gitVars,
                    progressVars >>

\* run_git_safety_checks: the second check
CheckUnpushed ==
    /\ rpc = "unpushed"
    /\ checks' = Append(checks, check_git_unpushed_commits(repo))
    /\ rpc' = AfterCheck(checks'[Len(checks')], "detached")
    /\ UNCHANGED << args, repo, prd, is_unsafe, surfaced, timeouts, run_attempt,
                    applied, run_exit, executions >>
    /\ UNCHANGED << executorVars, auditorVars, invokerVars, validatorVars, gitVars,
                    progressVars >>

\* run_git_safety_checks: the third check
CheckDetached ==
    /\ rpc = "detached"
    /\ checks' = Append(checks, check_git_detached_head(repo))
    /\ rpc' = "checked"
    /\ UNCHANGED << args, repo, prd, is_unsafe, surfaced, timeouts, run_attempt,
                    applied, run_exit, executions >>
    /\ UNCHANGED << executorVars, auditorVars, invokerVars, validatorVars, gitVars,
                    progressVars >>

\* run_git_safety_checks returns the checks and whether any is unsafe
ReturnSafetyChecks ==
    /\ rpc = "checked"
    /\ is_unsafe' = (\E i \in DOMAIN checks : checks[i].is_unsafe)
    /\ rpc' = "gate"
    /\ UNCHANGED << args, repo, prd, checks, surfaced, timeouts, run_attempt,
                    applied, run_exit, executions >>
    /\ UNCHANGED << executorVars, auditorVars, invokerVars, validatorVars, gitVars,
                    progressVars >>

\* cmd_run: unsafe findings are shown as warnings (display_git_safety_warning
\* shows the unsafe checks only); the run returns 1 unless args.force is set
SafetyGate ==
    /\ rpc = "gate"
    /\ surfaced' = (IF is_unsafe
                    THEN { checks[i] : i \in { k \in DOMAIN checks : checks[k].is_unsafe } }
                    ELSE { })
    /\ IF Blocks(is_unsafe, args.force)
       THEN /\ run_exit' = 1
            /\ rpc' = "blocked"
       ELSE /\ rpc' = "load"
            /\ UNCHANGED run_exit
    /\ UNCHANGED << args, repo, prd, checks, is_unsafe, timeouts, run_attempt,
                    applied, executions >>
    /\ UNCHANGED << executorVars, auditorVars, invokerVars, validatorVars, gitVars,
                    progressVars >>

\* cmd_run, lines 1066-1099: a PRD that does not load or lacks the story is
\* an error; with no story pending the run is complete
LoadPrd ==
    /\ rpc = "load"
    /\ IF ~ prd.loads
       THEN /\ run_exit' = 1
            /\ rpc' = "done"
       ELSE IF ~ prd.pending
       THEN /\ run_exit' = 0
            /\ rpc' = "done"
       ELSE /\ rpc' = "resolve"
            /\ UNCHANGED run_exit
    /\ UNCHANGED << args, repo, prd, checks, is_unsafe, surfaced, timeouts,
                    run_attempt, applied, executions >>
    /\ UNCHANGED << executorVars, auditorVars, invokerVars, validatorVars, gitVars,
                    progressVars >>

\* cmd_run: the timeouts are resolved once and the story execution starts
ResolveTimeouts ==
    /\ rpc = "resolve"
    /\ timeouts' = from_prd_and_args(prd, args.timeouts)
    /\ executions' = executions + 1
    /\ run_attempt' = 1
    /\ rpc' = "coder"
    /\ UNCHANGED << args, repo, prd, checks, is_unsafe, surfaced, applied, run_exit >>
    /\ UNCHANGED << executorVars, auditorVars, invokerVars, validatorVars, gitVars,
                    progressVars >>

\* the iteration failed: the next one starts, or the story has failed
RetryOrFail ==
    IF run_attempt < RunMaxRetries
    THEN /\ run_attempt' = run_attempt + 1
         /\ rpc' = "coder"
         /\ UNCHANGED run_exit
    ELSE /\ rpc' = "done"
         /\ run_exit' = 1
         /\ UNCHANGED run_attempt

\* executor.py lines 204-208: the coder is invoked with config.claude_timeout,
\* which the run sets to its coder timeout
CoderPhase ==
    /\ rpc = "coder"
    /\ applied' = applied \cup { [ phase |-> "coder", timeout |-> timeouts.coder ] }
    /\ \/ /\ rpc' = "validate"
          /\ UNCHANGED << run_attempt, run_exit >>
       \/ RetryOrFail
    /\ UNCHANGED << args, repo, prd, checks, is_unsafe, surfaced, timeouts, executions >>
    /\ UNCHANGED << executorVars, auditorVars, invokerVars, validatorVars, gitVars,
                    progressVars >>

\* executor.py lines 128-136: the validation command is run with timeout=120
ValidatorPhase ==
    /\ rpc = "validate"
    /\ applied' = applied \cup { [ phase |-> "validation", timeout |-> ValidationTimeout ] }
    /\ \/ /\ rpc' = "audit"
          /\ UNCHANGED << run_attempt, run_exit >>
       \/ RetryOrFail
    /\ UNCHANGED << args, repo, prd, checks, is_unsafe, surfaced, timeouts, executions >>
    /\ UNCHANGED << executorVars, auditorVars, invokerVars, validatorVars, gitVars,
                    progressVars >>

\* auditor.py lines 162-166: the auditor is invoked with the timeout argument
\* of audit_implementation, which the run sets to its audit timeout
AuditPhase ==
    /\ rpc = "audit"
    /\ applied' = applied \cup { [ phase |-> "audit", timeout |-> timeouts.audit ] }
    /\ \/ /\ rpc' = "done"
          /\ run_exit' \in { 0, 2 }
          /\ UNCHANGED run_attempt
       \/ RetryOrFail
    /\ UNCHANGED << args, repo, prd, checks, is_unsafe, surfaced, timeouts, executions >>
    /\ UNCHANGED << executorVars, auditorVars, invokerVars, validatorVars, gitVars,
                    progressVars >>

NextRun ==
    \/ CheckUncommitted
    \/ CheckUnpushed
    \/ CheckDetached
    \/ ReturnSafetyChecks
    \/ SafetyGate
    \/ LoadPrd
    \/ ResolveTimeouts
    \/ CoderPhase
    \/ ValidatorPhase
    \/ AuditPhase

SpecRun == InitRun /\ [][NextRun]_vars

(***************************************************************************)
(* Properties of a run                                                     *)
(***************************************************************************)
\* the timeout of a phase by the precedence rule
ResolvedTimeout(phase) ==
    Precedence(args.timeouts[phase], prd.timeouts[phase],
               CASE phase = "coder" -> 300
                 [] phase = "validation" -> 120
                 [] phase = "audit" -> 180)

\* C24: for each phase (coder, validation, audit) the timeout of a run is
\* the explicit override if given, else the value of the PRD if given, else
\* the default (coder 300, validation 120, audit 180); the values are
\* resolved once before the loop and every phase call of the run is made
\* with the resolved value of its phase
C24_PhasesUseResolvedTimeouts ==
    /\ rpc \in { "coder", "validate", "audit" } =>
           \A phase \in { "coder", "validation", "audit" } :
               timeouts[phase] = ResolvedTimeout(phase)
    /\ \A call \in applied : call.timeout = ResolvedTimeout(call.phase)

(***************************************************************************)
(* shared/git.py: commit_story                                             *)
(***************************************************************************)
\* length of the longest whitelist
MaxWhitelist == 2

\* the paths a whitelist is made of, and a path no whitelist has
FileNames == << "a.py", "b.py", "c.py", "d.py" >>

Unrelated == "unrelated.py"

\* the whitelists commit_story is called with
Whitelists == { SubSeq(FileNames, 1, n) : n \in 0..MaxWhitelist }

\* what a path can be in the working directory
Statuses == { "absent", "unchanged", "modified", "untracked" }

\* the working directories of a call with whitelist w: every whitelisted path
\* in any status, and a dirty file that is not whitelisted
Worktrees(w) ==
    { t \in [ { FileNames[i] : i \in DOMAIN FileNames } \cup { Unrelated } -> Statuses ] :
        /\ t[Unrelated] = "modified"
        /\ \A i \in DOMAIN FileNames : i > Len(w) => t[FileNames[i]] = "unchanged" }

\* lines 131-136: a _GitResult
GitResult(rc, stdout, stderr) ==
    [ returncode |-> rc, stdout |-> stdout, stderr |-> stderr ]

\* what _run_git returns for a command that fails: the exit status of git
\* with its message, or -1 with the message of _run_git (lines 163-180)
GitFailures ==
    { GitResult(1, << >>, << "fatal: Unable to create index.lock" >>),
      GitResult(-1, << >>, << "Git command timed out after 30s" >>) }

\* what _run_git returns for git commit
CommitOutcomes ==
    { GitResult(0, << "[main abc123] feat" >>, << >>),
      GitResult(1, << "On branch main", NL, "nothing to commit", ", working tree clean" >>,
                << >>),
      GitResult(1, << >>, << "Nothing to commit" >>),
      GitResult(1, << >>, << "error: unable to create commit" >>),
      GitResult(1, << "pre-commit hook failed" >>, << >>),
      GitResult(-1, << >>, << "Git command timed out after 30s" >>) }

\* Python: str.lower(), token by token
LowerToken(t) == IF t = "Nothing to commit" THEN "nothing to commit" ELSE t

Lower(s) == [ i \in DOMAIN s |-> LowerToken(s[i]) ]

\* one _run_git call in the history
GitCall(cmd, path, ok) == [ cmd |-> cmd, path |-> path, ok |-> ok ]

\* the git commit call in the history, with what it returned
CommitCall(r) == [ cmd |-> "commit", path |-> "", ok |-> r.returncode = 0, result |-> r ]

\* line 66 counts a failed diff as a diff
HasDiff_FailureIgnored(status, ok) == ~ ok \/ status = "modified"

\* line 66: the diff command succeeded and named the path
HasDiff(status, ok) == ok /\ status = "modified"

\* line 75: the ls-files command succeeded and named the path
IsUntracked(status, ok) == ok /\ status = "untracked"

\* only the standard output is searched
NothingToCommit_StdoutOnly(r) == Contains(Lower(r.stdout), << "nothing to commit" >>)

\* line 101
NothingToCommit(r) ==
    \/ Contains(Lower(r.stdout), << "nothing to commit" >>)
    \/ Contains(Lower(r.stderr), << "nothing to commit" >>)

InitCommit ==
    /\ ExecutorIdle
    /\ pc = "off"
    /\ AuditorOff
    /\ InvokerOff
    /\ ValidatorOff
    /\ CliOff
    /\ ProgressOff
    /\ gpc = "start"
    /\ whitelist \in Whitelists
    /\ worktree \in Worktrees(whitelist)
    /\ index \in { { }, { Unrelated } }
    /\ index0 = index
    /\ worktree0 = worktree
    /\ GitIdle

\* lines 50-55: an empty whitelist is a failure
ValidateFiles ==
    /\ gpc = "start"
    /\ IF whitelist = << >>
       THEN /\ commit_result' = CommitResult(FALSE, "", << "No files provided to commit" >>)
            /\ gpc' = "done"
            /\ UNCHANGED file_i
       ELSE /\ gpc' = "check"
            /\ file_i' = 1
            /\ UNCHANGED commit_result
    /\ UNCHANGED << whitelist, worktree, index, index0, worktree0, commits, staged_files, git_calls >>
    /\ UNCHANGED << executorVars, auditorVars, invokerVars, validatorVars, cliVars,
                    progressVars >>

\* lines 59-79, one pass of the loop: a path that does not exist is skipped;
\* a path the diff command names is selected; otherwise a path the ls-files
\* command names is selected
CheckFile ==
    /\ gpc = "check"
    /\ file_i <= Len(whitelist)
    /\ LET file_path == whitelist[file_i]
           status == worktree[file_path]
       IN  IF status = "absent"
           THEN UNCHANGED << staged_files, git_calls >>
           ELSE \E diff_ok \in BOOLEAN :
                    IF HasDiff(status, diff_ok)
                    THEN /\ staged_files' = Append(staged_files, file_path)
                         /\ git_calls' = Append(git_calls, GitCall("diff", file_path, diff_ok))
                    ELSE \E ls_ok \in BOOLEAN :
                             /\ staged_files' =
                                    (IF IsUntracked(status, ls_ok)
                                     THEN Append(staged_files, file_path)
                                     ELSE staged_files)
                             /\ git_calls' = git_calls \o
                                    << GitCall("diff", file_path, diff_ok),
                                       GitCall("ls-files", file_path, ls_ok) >>
    /\ file_i' = file_i + 1
    /\ UNCHANGED << gpc, whitelist, worktree, index, index0, worktree0, commits, commit_result >>
    /\ UNCHANGED << executorVars, auditorVars, invokerVars, validatorVars, cliVars,
                    progressVars >>

\* the commit step is reached with no path selected
CheckedAll_NothingSelectedCommits ==
    /\ gpc = "check"
    /\ file_i > Len(whitelist)
    /\ gpc' = (IF staged_files = << >> THEN "commit" ELSE "stage")
    /\ file_i' = 1
    /\ UNCHANGED << whitelist, worktree, index, index0, worktree0, commits, staged_files,
                    commit_result, git_calls >>
    /\ UNCHANGED << executorVars, auditorVars, invokerVars, validatorVars, cliVars,
                    progressVars >>

\* lines 81-85, after the loop: with no path selected the call fails
CheckedAll ==
    /\ gpc = "check"
    /\ file_i > Len(whitelist)
    /\ IF staged_files = << >>
       THEN /\ commit_result' =
                   CommitResult(FALSE, "", << "No whitelisted files have changes to commit" >>)
            /\ gpc' = "done"
            /\ UNCHANGED file_i
       ELSE /\ gpc' = "stage"
            /\ file_i' = 1
            /\ UNCHANGED commit_result
    /\ UNCHANGED << whitelist, worktree, index, index0, worktree0, commits, staged_files, git_calls >>
    /\ UNCHANGED << executorVars, auditorVars, invokerVars, validatorVars, cliVars,
                    progressVars >>

\* mutant of StageFile: a git add that fails is skipped and the loop goes on
StageFile_FailureIgnored ==
    /\ gpc = "stage"
    /\ file_i <= Len(staged_files)
    /\ LET file_path == staged_files[file_i]
       IN  \/ /\ index' = index \cup { file_path }
              /\ git_calls' = Append(git_calls, GitCall("add", file_path, TRUE))
           \/ /\ git_calls' = Append(git_calls, GitCall("add", file_path, FALSE))
              /\ UNCHANGED index
    /\ file_i' = file_i + 1
    /\ gpc' = (IF file_i = Len(staged_files) THEN "commit" ELSE "stage")
    /\ UNCHANGED << whitelist, worktree, index0, worktree0, commits, staged_files,
                    commit_result >>
    /\ UNCHANGED << executorVars, auditorVars, invokerVars, validatorVars, cliVars,
                    progressVars >>

\* lines 88-94, one pass of the loop: git add of a selected path; a failure
\* ends the call
StageFile ==
    /\ gpc = "stage"
    /\ file_i <= Len(staged_files)
    /\ LET file_path == staged_files[file_i]
       IN  \/ /\ index' = index \cup { file_path }
              /\ git_calls' = Append(git_calls, GitCall("add", file_path, TRUE))
              /\ file_i' = file_i + 1
              /\ gpc' = (IF file_i = Len(staged_files) THEN "commit" ELSE "stage")
              /\ UNCHANGED commit_result
           \/ \E r \in GitFailures :
                  /\ commit_result' =
                         CommitResult(FALSE, "",
                             << "Failed to stage ", file_path, ": " >> \o r.stderr)
                  /\ git_calls' = Append(git_calls, GitCall("add", file_path, FALSE))
                  /\ gpc' = "done"
                  /\ UNCHANGED << index, file_i >>
    /\ UNCHANGED << whitelist, worktree, index0, worktree0, commits, staged_files >>
    /\ UNCHANGED << executorVars, auditorVars, invokerVars, validatorVars, cliVars,
                    progressVars >>

\* lines 97-110: git commit.  A commit that succeeds records the index; one
\* that fails is reported as nothing to commit or as a failure with the
\* output of git
Commit ==
    /\ gpc = "commit"
    /\ \E r \in CommitOutcomes :
           /\ git_calls' = Append(git_calls, CommitCall(r))
           /\ IF r.returncode # 0
              THEN /\ commit_result' =
                          (IF NothingToCommit(r)
                           THEN CommitResult(FALSE, "",
                                    << "Nothing to commit - files may already be committed" >>)
                           ELSE CommitResult(FALSE, "",
                                    << "Commit failed: " >> \o
                                        (IF r.stderr # << >> THEN r.stderr ELSE r.stdout)))
                   /\ gpc' = "done"
                   /\ UNCHANGED << worktree, index, commits >>
              ELSE /\ commits' = commits + 1
                   /\ worktree' = [ f \in DOMAIN worktree |->
                                      IF f \in index THEN "unchanged" ELSE worktree[f] ]
                   /\ index' = { }
                   /\ gpc' = "revparse"
                   /\ UNCHANGED commit_result
    /\ UNCHANGED << whitelist, index0, worktree0, staged_files, file_i >>
    /\ UNCHANGED << executorVars, auditorVars, invokerVars, validatorVars, cliVars,
                    progressVars >>

\* lines 112-124: git rev-parse HEAD names the commit, or fails
RevParse ==
    /\ gpc = "revparse"
    /\ \E ok \in BOOLEAN :
           /\ git_calls' = Append(git_calls, GitCall("rev-parse", "", ok))
           /\ commit_result' = CommitResult(TRUE, IF ok THEN "abc123" ELSE "unknown", << >>)
    /\ gpc' = "done"
    /\ UNCHANGED << whitelist, worktree, index, index0, worktree0, commits, staged_files, file_i >>
    /\ UNCHANGED << executorVars, auditorVars, invokerVars, validatorVars, cliVars,
                    progressVars >>

NextCommit ==
    \/ ValidateFiles
    \/ CheckFile
    \/ CheckedAll
    \/ StageFile
    \/ Commit
    \/ RevParse

SpecCommit == InitCommit /\ [][NextCommit]_vars

(***************************************************************************)
(* Properties of commit_story                                              *)
(***************************************************************************)
\* the whitelisted paths that existed when commit_story was called and had
\* a diff against HEAD or were untracked
QualifyingPaths ==
    { whitelist[i] : i \in { k \in DOMAIN whitelist :
                               worktree0[whitelist[k]] \in { "modified", "untracked" } } }

\* the paths commit_story has staged
StagedPaths ==
    { git_calls[i].path : i \in { k \in DOMAIN git_calls :
                                    git_calls[k].cmd = "add" /\ git_calls[k].ok } }

\* the git commands of the given kinds that were issued
Issued(cmds) == { i \in DOMAIN git_calls : git_calls[i].cmd \in cmds }

\* C25 as stated: when commit_story returns it has staged exactly the
\* whitelisted paths that exist and have a diff against HEAD or are untracked
C25_StagesExactlyQualifyingPaths ==
    gpc = "done" => StagedPaths = QualifyingPaths

\* C25, amended: commit_story stages only whitelisted paths that exist and
\* have a diff against HEAD or are untracked (absent and unchanged paths get
\* no git add and cause no error, no other path enters the index), and it
\* stages all of them when none of its diff, ls-files and add commands fails
C25_StagesOnlyQualifyingPaths ==
    /\ \A i \in Issued({ "add" }) : git_calls[i].path \in QualifyingPaths
    /\ index \subseteq index0 \cup QualifyingPaths
    /\ gpc \in { "commit", "revparse" } => StagedPaths = { staged_files[i] : i \in DOMAIN staged_files }
    /\ ( /\ gpc = "done"
         /\ \A i \in Issued({ "diff", "ls-files", "add" }) : git_calls[i].ok )
           => StagedPaths = QualifyingPaths

\* whitelist [a.py, b.py] where only a.py has a diff: one file is staged and
\* one commit is made, the unrelated dirty file is left alone
C25_OneOfTwoStaged ==
    /\ gpc = "done"
    /\ whitelist = << "a.py", "b.py" >>
    /\ worktree0["a.py"] = "modified"
    /\ worktree0["b.py"] = "unchanged"
    /\ StagedPaths = { "a.py" }
    /\ Cardinality(Issued({ "add" })) = 1
    /\ commits = 1
    /\ commit_result.success
    /\ worktree[Unrelated] = "modified"
    /\ index = index0

\* C26: when the whitelist is empty or no whitelisted path qualifies for
\* staging, commit_story issues no add and no commit command and leaves the
\* index and the history as they were, and it returns a failure, with the
\* reason that no whitelisted files have changes when the whitelist is not
\* empty
C26_NothingToStageFails ==
    (whitelist = << >> \/ QualifyingPaths = { }) =>
        /\ Issued({ "add", "commit", "rev-parse" }) = { }
        /\ index = index0
        /\ commits = 0
        /\ gpc \in { "start", "check", "done" }
        /\ gpc = "done" =>
              /\ ~ commit_result.success
              /\ commit_result.sha = ""
              /\ whitelist = << >> =>
                     /\ commit_result.error = << "No files provided to commit" >>
                     /\ git_calls = << >>
              /\ whitelist # << >> =>
                     commit_result.error =
                         << "No whitelisted files have changes to commit" >>

\* of two whitelisted paths one is absent and the other unchanged
C26_AbsentAndUnchanged ==
    /\ gpc = "done"
    /\ whitelist = << "a.py", "b.py" >>
    /\ worktree0["a.py"] = "absent"
    /\ worktree0["b.py"] = "unchanged"
    /\ commit_result.error = << "No whitelisted files have changes to commit" >>
    /\ Len(git_calls) = 2
    /\ index0 = { Unrelated }

\* the output of a git command says "nothing to commit", in any case
SaysNothingToCommit(r) ==
    \E i \in DOMAIN (r.stdout \o r.stderr) :
        (r.stdout \o r.stderr)[i] \in { "nothing to commit", "Nothing to commit" }

\* C27: commit_story reports each outcome of the commit step distinctly: a
\* failed commit whose output says "nothing to commit" gives the failure with
\* the nothing-to-commit reason, any other failed commit gives the failure
\* with the generic "Commit failed" reason and the output of git, a commit
\* that succeeded and whose revision lookup fails gives success with the sha
\* "unknown"; success is returned only when the commit command succeeded
C27_CommitOutcomesAreDistinct ==
    gpc = "done" =>
        /\ commit_result.success =>
               \E i \in Issued({ "commit" }) : git_calls[i].result.returncode = 0
        /\ \A i \in Issued({ "commit" }) :
               LET r == git_calls[i].result
               IN  /\ (r.returncode # 0 /\ SaysNothingToCommit(r)) =>
                          commit_result =
                              CommitResult(FALSE, "",
                                  << "Nothing to commit - files may already be committed" >>)
                   /\ (r.returncode # 0 /\ ~ SaysNothingToCommit(r)) =>
                          /\ ~ commit_result.success
                          /\ commit_result.sha = ""
                          /\ commit_result.error =
                                 << "Commit failed: " >> \o
                                     (IF r.stderr = << >> THEN r.stdout ELSE r.stderr)
                   /\ r.returncode = 0 =>
                          /\ commit_result.success
                          /\ commit_result.error = << >>
                          /\ commits = 1
                          /\ \A k \in Issued({ "rev-parse" }) :
                                 commit_result.sha =
                                     (IF git_calls[k].ok THEN "abc123" ELSE "unknown")

\* git commit failed and said on stderr that there is nothing to commit
C27_NothingToCommitOnStderr ==
    /\ gpc = "done"
    /\ \E i \in Issued({ "commit" }) :
           git_calls[i].result = GitResult(1, << >>, << "Nothing to commit" >>)
    /\ commit_result.error = << "Nothing to commit - files may already be committed" >>
    /\ commits = 0

\* run_git_safety_checks has returned
SafetyChecked == rpc \notin { "off", "start", "unpushed", "detached", "checked" }

\* the checks of a type
ChecksOfType(type) == { i \in DOMAIN checks : checks[i].check_type = type }

\* C28: the git safety pre-flight evaluates all three checks whatever the
\* earlier ones found, returns exactly one result per check type, reports the
\* aggregate as unsafe iff at least one check is unsafe, and the
\* unpushed_commits check is safe when there is no upstream
C28_AllChecksEvaluated ==
    SafetyChecked =>
        /\ Len(checks) = 3
        /\ \A type \in { "uncommitted_changes", "unpushed_commits", "detached_head" } :
               Cardinality(ChecksOfType(type)) = 1
        /\ is_unsafe <=> (\E i \in DOMAIN checks : checks[i].is_unsafe)
        /\ \A i \in ChecksOfType("uncommitted_changes") :
               checks[i].is_unsafe <=> (~ repo.is_repo \/ repo.dirty)
        /\ \A i \in ChecksOfType("unpushed_commits") :
               /\ checks[i].is_unsafe <=> (repo.is_repo /\ repo.upstream = "ahead")
               /\ repo.upstream = "none" => ~ checks[i].is_unsafe
        /\ \A i \in ChecksOfType("detached_head") :
               checks[i].is_unsafe <=> (~ repo.is_repo \/ repo.detached)

\* uncommitted changes, no upstream, HEAD detached: the first check is
\* unsafe, the second is safe, the third is made and is unsafe
C28_UnsafeWithoutUpstream ==
    /\ rpc = "gate"
    /\ repo = [ is_repo |-> TRUE, dirty |-> TRUE, upstream |-> "none", detached |-> TRUE ]
    /\ Len(checks) = 3
    /\ checks[1].is_unsafe
    /\ ~ checks[2].is_unsafe
    /\ checks[3].is_unsafe
    /\ is_unsafe

\* the unsafe checks of the pre-flight
UnsafeChecks == { checks[i] : i \in { k \in DOMAIN checks : checks[k].is_unsafe } }

\* cmd_run has passed the safety gate, one way or the other
GatePassed == SafetyChecked /\ rpc # "gate"

\* C29: a run is blocked, that is it returns 1 at the safety gate and starts
\* no story execution, iff at least one git safety check is unsafe and the
\* force flag is not set; with the force flag the run proceeds, and every
\* unsafe finding is shown to the caller in both cases
C29_BlockedIffUnsafeAndNotForced ==
    /\ executions > 0 => (~ is_unsafe \/ args.force)
    /\ GatePassed =>
          /\ rpc = "blocked" <=> (UnsafeChecks # { } /\ ~ args.force)
          /\ rpc = "blocked" => (run_exit = 1 /\ executions = 0)
          /\ surfaced = UnsafeChecks

\* the repository is unsafe in two ways, the run is forced and has started
\* the story with both findings shown
C29_ForcedRunProceeds ==
    /\ rpc = "coder"
    /\ args.force
    /\ executions = 1
    /\ Cardinality(surfaced) = 2
    /\ repo.dirty
    /\ repo.upstream = "ahead"

\* ---------------------------------------------------------------------------
\* shared/progress.py: load_learnings and append_progress
\* ---------------------------------------------------------------------------

\* the number of append_progress calls in a run
MaxEntries == 3

\* the largest max_history load_learnings is called with
MaxHistory == 4

\* the template of a new progress file, "{timestamp}" filled in
PROGRESS_TEMPLATE ==
    << "# Ralph Progress Log", NL, "Started: ", "<timestamp>", NL, NL,
       "## ", "Codebase Patterns", NL, "---", NL, NL,
       "## ", "Recent History", NL, "---", NL >>

\* the lines written under the Codebase Patterns heading: bullets, an indented
\* bullet, a line that is no bullet, an empty line
PatternBlocks ==
    { << >>,
      << << "- ", "p1" >> >>,
      << << "- ", "p1" >>, << " ", "- ", "p2" >> >>,
      << << "- ", "p1" >>, << "note" >>, << "- ", "p2" >> >>,
      << << >>, << "- ", "p1" >> >>,
      << << "note" >> >> }

RECURSIVE LinesOf(_)
\* the lines of a block, each with its newline
LinesOf(block) ==
    IF block = << >> THEN << >>
    ELSE Head(block) \o << NL >> \o LinesOf(Tail(block))

\* a progress file in the layout of the template with a block of lines between
\* the Codebase Patterns heading and its separator
FileWith(block) ==
    [ exists |-> TRUE,
      content |-> SubSeq(PROGRESS_TEMPLATE, 1, 9) \o LinesOf(block)
                  \o SubSeq(PROGRESS_TEMPLATE, 10, Len(PROGRESS_TEMPLATE)) ]

\* the tokens \d{4}-\d{2}-\d{2} matches
Dates == { "2026-01-28", "2026-01-29" }

\* the entries append_progress is called with: dated ones without and with
\* their separator and with a trailing newline, one that is not dated, and a
\* dated one whose last line ends with three dashes after other text
EntryInputs ==
    { << "## ", "2026-01-28", " ", "US-001", NL, "- ", "did x" >>,
      << "## ", "2026-01-28", " ", "US-001", NL, "- ", "did x", NL, "---" >>,
      << "## ", "2026-01-29", " ", "US-002", NL >>,
      << "## ", "notes", NL, "- ", "n" >>,
      << "## ", "2026-01-29", " ", "US-003", " ", "---" >> }

RECURSIVE FindFrom(_, _, _)
\* the first position from i on where sub occurs in s, 0 when there is none
FindFrom(s, sub, i) ==
    IF i + Len(sub) - 1 > Len(s) THEN 0
    ELSE IF SubSeq(s, i, i + Len(sub) - 1) = sub THEN i
    ELSE FindFrom(s, sub, i + 1)

RECURSIVE SpaceRunEnd(_, _)
\* the position after the run of whitespace that starts at i: what a greedy
\* \s* consumes
SpaceRunEnd(s, i) ==
    IF i <= Len(s) /\ IsSpace(s[i]) THEN SpaceRunEnd(s, i + 1) ELSE i

\* the last newline of s[i..j-1], 0 when there is none: where \s*\n ends after
\* \s* has given back what it must
LastNewline(s, i, j) ==
    LET nls == { k \in i..(j - 1) : s[k] = NL }
    IN  IF nls = { } THEN 0 ELSE CHOOSE k \in nls : \A l \in nls : l <= k

RECURSIVE LookAhead(_, _, _)
\* the first position from i on where the look-ahead (?=\n<start>|\Z) holds,
\* for the line starts given: where a lazy .*? under re.DOTALL ends
LookAhead(s, i, starts) ==
    IF i > Len(s) THEN i
    ELSE IF s[i] = NL /\ i < Len(s) /\ s[i + 1] \in starts THEN i
    ELSE LookAhead(s, i + 1, starts)

RECURSIVE PatternsMatch(_, _)
\* lines 128-132: re.search of
\* "## Codebase Patterns\s*\n(.*?)(?=\n---|\n## |\Z)" from position i on, and
\* its group 1
PatternsMatch(content, i) ==
    LET h == FindFrom(content, << "## ", "Codebase Patterns" >>, i)
        nl == LastNewline(content, h + 2, SpaceRunEnd(content, h + 2))
    IN  IF h = 0 THEN [ found |-> FALSE, section |-> << >> ]
        ELSE IF nl = 0 THEN PatternsMatch(content, h + 1)
        ELSE [ found |-> TRUE,
               section |-> SubSeq(content, nl + 1,
                                  LookAhead(content, nl + 1, { "---", "## " }) - 1) ]

RECURSIVE SplitNL(_)
\* Python: s.split("\n")
SplitNL(s) ==
    LET k == FindFrom(s, << NL >>, 1)
    IN  IF k = 0 THEN << s >>
        ELSE << SubSeq(s, 1, k - 1) >> \o SplitNL(SubSeq(s, k + 1, Len(s)))

RECURSIVE BulletLines(_)
\* lines 137-140: the lines that start with "- " once stripped, stripped
BulletLines(lines) ==
    IF lines = << >> THEN << >>
    ELSE LET line == Strip(Head(lines))
         IN  (IF line # << >> /\ Head(line) = "- " THEN << line >> ELSE << >>)
             \o BulletLines(Tail(lines))

\* lines 116-142
_extract_patterns(content) ==
    LET patterns_match == PatternsMatch(content, 1)
    IN  IF patterns_match.found
        THEN BulletLines(SplitNL(patterns_match.section))
        ELSE << >>

RECURSIVE EntryStart(_, _)
\* the first position from i on where "## \d{4}-\d{2}-\d{2}" matches, 0 when
\* there is none
EntryStart(s, i) ==
    IF i + 1 > Len(s) THEN 0
    ELSE IF s[i] = "## " /\ s[i + 1] \in Dates THEN i
    ELSE EntryStart(s, i + 1)

RECURSIVE FindAllEntries(_, _)
\* lines 161-166: findall of "(## \d{4}-\d{2}-\d{2}.*?(?=\n---|\Z))" from
\* position i on
FindAllEntries(content, i) ==
    LET k == EntryStart(content, i)
        e == LookAhead(content, k + 2, { "---" })
    IN  IF k = 0 THEN << >>
        ELSE << SubSeq(content, k, e - 1) >> \o FindAllEntries(content, e)

RECURSIVE StrippedEntries(_)
\* lines 167-170: the matches stripped, the empty ones dropped
StrippedEntries(matches) ==
    IF matches = << >> THEN << >>
    ELSE LET entry == Strip(Head(matches))
         IN  (IF entry # << >> THEN << entry >> ELSE << >>)
             \o StrippedEntries(Tail(matches))

\* lines 145-172
_extract_history_entries(content) == StrippedEntries(FindAllEntries(content, 1))

\* Python: s[start:], a negative start counted from the end
SliceFrom(s, start) ==
    LET n  == Len(s)
        lo == IF start < 0
              THEN (IF n + start < 0 THEN 0 ELSE n + start)
              ELSE (IF start > n THEN n ELSE start)
    IN  SubSeq(s, lo + 1, n)

\* line 77: history_entries[-max_history:] if history_entries else []
RecentHistory(history_entries, max_history) ==
    IF history_entries # << >>
    THEN SliceFrom(history_entries, 0 - max_history)
    ELSE << >>

\* lines 70-79: the ProgressContext load_learnings returns for a file that
\* exists
load_learnings(content, max_history) ==
    ProgressContext(_extract_patterns(content),
                    RecentHistory(_extract_history_entries(content), max_history))

\* lines 101-111 writing the heading of the file and the new entry only, the
\* entries before it dropped
append_progress_KeepsNewest(content, entry) ==
    LET stripped  == Strip(entry)
        separated == IF stripped # << >> /\ stripped[Len(stripped)] = "---"
                     THEN stripped
                     ELSE stripped \o << NL, "---" >>
    IN  SubSeq(content, 1, 6) \o << NL >> \o separated \o << NL >>

\* lines 101-111: the content append_progress writes
append_progress(content, entry) ==
    LET stripped  == Strip(entry)
        separated == IF stripped # << >> /\ stripped[Len(stripped)] = "---"
                     THEN stripped
                     ELSE stripped \o << NL, "---" >>
        ended     == IF content # << >> /\ content[Len(content)] = NL
                     THEN content
                     ELSE content \o << NL >>
    IN  ended \o << NL >> \o separated \o << NL >>

\* lines 62-67 and 94-99 creating the file without writing the template
CreateFile_Empty == [ exists |-> TRUE, content |-> << >> ]

\* lines 62-67 and 94-99: the file a call creates when there is none
CreateFile == [ exists |-> TRUE, content |-> PROGRESS_TEMPLATE ]

\* there is no progress file yet, or one in the layout of the template
InitProgress ==
    /\ ExecutorIdle
    /\ pc = "off"
    /\ AuditorOff
    /\ InvokerOff
    /\ ValidatorOff
    /\ CliOff
    /\ GitOff
    /\ \E block \in PatternBlocks :
          /\ patterns_block = block
          /\ progress_file \in { FileWith(block) } \cup
                               (IF block = << >> THEN { NoFile } ELSE { })
    /\ appended = << >>
    /\ progress_call = NoProgressCall

\* lines 60-79: load_learnings, which writes the template when the file is
\* missing
LoadLearnings ==
    /\ \E max_history \in 0..MaxHistory :
          IF ~ progress_file.exists
          THEN /\ progress_file' = CreateFile
               /\ progress_call' = ProgressCall("load_learnings", max_history,
                                                ProgressContext(<< >>, << >>))
          ELSE /\ progress_file' = progress_file
               /\ progress_call' = ProgressCall("load_learnings", max_history,
                                                load_learnings(progress_file.content,
                                                               max_history))
    /\ UNCHANGED << patterns_block, appended >>
    /\ UNCHANGED << executorVars, auditorVars, invokerVars, validatorVars, cliVars,
                    gitVars >>

\* lines 92-113: append_progress, which writes the template first when the
\* file is missing
AppendProgress ==
    /\ Len(appended) < MaxEntries
    /\ \E entry \in EntryInputs :
          /\ progress_file' =
                 [ exists |-> TRUE,
                   content |-> append_progress(IF progress_file.exists
                                               THEN progress_file.content
                                               ELSE CreateFile.content, entry) ]
          /\ appended' = Append(appended, entry)
    /\ progress_call' = ProgressCall("append_progress", 0, ProgressContext(<< >>, << >>))
    /\ UNCHANGED patterns_block
    /\ UNCHANGED << executorVars, auditorVars, invokerVars, validatorVars, cliVars,
                    gitVars >>

NextProgress == LoadLearnings \/ AppendProgress

\* a progress file that is loaded and appended to in any order
SpecProgress == InitProgress /\ [][NextProgress]_vars

\* ---------------------------------------------------------------------------
\* Properties of load_learnings
\* ---------------------------------------------------------------------------

\* an entry given to append_progress is dated
IsDated(entry) == Len(entry) >= 2 /\ entry[1] = "## " /\ entry[2] \in Dates

\* the text of an entry given to append_progress, its separator left out
EntryText(entry) ==
    LET stripped == Strip(entry)
    IN  IF stripped # << >> /\ stripped[Len(stripped)] = "---"
        THEN Strip(SubSeq(stripped, 1, Len(stripped) - 1))
        ELSE stripped

RECURSIVE DatedEntries(_)
\* the dated entries of the file, oldest first
DatedEntries(log) ==
    IF log = << >> THEN << >>
    ELSE (IF IsDated(Head(log)) THEN << EntryText(Head(log)) >> ELSE << >>)
         \o DatedEntries(Tail(log))

RECURSIVE BulletsOf(_)
\* the bullet lines of the Codebase Patterns section as it was written
BulletsOf(block) ==
    IF block = << >> THEN << >>
    ELSE (IF \E k \in DOMAIN Head(block) :
                 /\ Head(block)[k] = "- "
                 /\ \A l \in 1..(k - 1) : Head(block)[l] = " "
          THEN << SelectSeq(Head(block), LAMBDA t : t # " ") >>
          ELSE << >>)
         \o BulletsOf(Tail(block))

\* the k last elements of s
LastOf(s, k) == SubSeq(s, Len(s) - k + 1, Len(s))

\* C30: for a progress file with N dated entries and any max_history >= 0,
\* load_learnings returns exactly the min(N, max_history) most recent entries
\* in file order, and every bullet line of the Patterns section whatever N
\* and max_history are
C30_LoadsLastEntriesAndAllPatterns ==
    progress_call.fn = "load_learnings" =>
        LET dated == DatedEntries(appended)
            N     == Len(dated)
            m     == progress_call.max_history
        IN  /\ progress_call.context.recent_history =
                   LastOf(dated, IF N < m THEN N ELSE m)
            /\ progress_call.context.patterns = BulletsOf(patterns_block)

\* ---------------------------------------------------------------------------
\* Properties of append_progress
\* ---------------------------------------------------------------------------

\* the content append_progress starts from
ContentBefore ==
    IF progress_file.exists THEN progress_file.content ELSE PROGRESS_TEMPLATE

\* the lines the step has added at the end of the file, the empty lines around
\* them left out
WrittenLines ==
    SplitNL(Strip(SubSeq(progress_file'.content, Len(ContentBefore) + 1,
                         Len(progress_file'.content))))

\* the step is an append_progress call
Appends == appended' # appended

\* C31: after every append_progress call the entry written to the file ends
\* with exactly one "---" terminator line, added when the entry lacks one and
\* not duplicated when it has one
C31_EntryEndsWithOneTerminator ==
    [][Appends =>
          /\ WrittenLines[Len(WrittenLines)] = << "---" >>
          /\ Len(WrittenLines) >= 2 => WrittenLines[Len(WrittenLines) - 1] # << "---" >>]_vars

\* s is a prefix of t
IsPrefixOf(s, t) == Len(s) <= Len(t) /\ SubSeq(t, 1, Len(s)) = s

\* the step is a load_learnings call
Loads == progress_call'.fn = "load_learnings"

\* C32: the progress log is append-only: a call on an existing file leaves the
\* content it found as a prefix of the file, load_learnings changes nothing,
\* and the entries older than the loaded window are still in the file
C32_AppendOnly ==
    [][progress_file.exists =>
          /\ progress_file'.exists
          /\ IsPrefixOf(progress_file.content, progress_file'.content)
          /\ Loads => progress_file' = progress_file
          /\ \A i \in DOMAIN appended :
                 Contains(progress_file'.content, EntryText(appended[i]))]_vars

\* two dated entries were appended, load_learnings with max_history = 1 has
\* returned the second only, and the first is still in the file
C32_OlderEntryOnDiskNotLoaded ==
    /\ progress_call.fn = "load_learnings"
    /\ progress_call.max_history = 1
    /\ Len(appended) = 2
    /\ IsDated(appended[1])
    /\ Len(progress_call.context.recent_history) = 1
    /\ progress_call.context.recent_history[1] = EntryText(appended[2])
    /\ EntryText(appended[1]) # EntryText(appended[2])
    /\ Contains(progress_file.content, EntryText(appended[1]))

\* what the step has added after the template, the empty lines around it left
\* out
AfterTemplate ==
    Strip(SubSeq(progress_file'.content, Len(PROGRESS_TEMPLATE) + 1,
                 Len(progress_file'.content)))

\* C33: when the progress file does not exist, a load_learnings or
\* append_progress call creates it from the template; load_learnings then
\* returns empty patterns and empty history, and append_progress leaves the
\* template followed by the appended entry
C33_MissingFileCreatedFromTemplate ==
    [][~ progress_file.exists =>
          /\ progress_file'.exists
          /\ IsPrefixOf(PROGRESS_TEMPLATE, progress_file'.content)
          /\ Loads =>
                 /\ progress_file'.content = PROGRESS_TEMPLATE
                 /\ progress_call'.context = ProgressContext(<< >>, << >>)
          /\ Appends =>
                 \E entry \in EntryInputs :
                     /\ appended' = << entry >>
                     /\ AfterTemplate \in { Strip(entry), Strip(entry) \o << NL, "---" >> }]_vars

\* the file did not exist, append_progress has created it and a later
\* load_learnings returns the entry
C33_AppendedToCreatedFile ==
    /\ patterns_block = << >>
    /\ Len(appended) = 1
    /\ IsPrefixOf(PROGRESS_TEMPLATE, progress_file.content)
    /\ progress_file.content # PROGRESS_TEMPLATE
    /\ progress_call.fn = "load_learnings"
    /\ progress_call.context.recent_history = << EntryText(appended[1]) >>

\* the entry the step appends
Appended == appended'[Len(appended')]

\* an entry that starts with a dated header and has no line that starts with
\* "---"
DatedWithoutTerminator(entry) ==
    /\ IsDated(entry)
    /\ \A i \in DOMAIN SplitNL(entry) :
           LET line == SplitNL(entry)[i] IN line = << >> \/ Head(line) # "---"

\* C36: after append_progress(path, e) for an entry e that starts with a dated
\* header and has no "---" line of its own, load_learnings(path, max_history)
\* with max_history >= 1 returns e without the terminator as the last element
\* of recent_history, with the entries stored before it in file order
C36_AppendedEntryIsLoadedLast ==
    [][(Appends /\ DatedWithoutTerminator(Appended)) =>
          \A max_history \in 1..MaxHistory :
              LET before == _extract_history_entries(ContentBefore)
                  recent == load_learnings(progress_file'.content,
                                           max_history).recent_history
                  kept   == IF Len(before) < max_history - 1
                            THEN Len(before) ELSE max_history - 1
              IN  /\ recent # << >>
                  /\ recent[Len(recent)] = Strip(Appended)
                  /\ SubSeq(recent, 1, Len(recent) - 1) = LastOf(before, kept)]_vars

\* ---------------------------------------------------------------------------
\* Properties of execute_story: its inputs, its last error, its error context
\* ---------------------------------------------------------------------------

\* C34: execute_story never mutates its inputs: from the call to the return,
\* whatever the outcome, every step leaves the Story (pass flag, attempt
\* counter and every other field) and the ExecutorConfig as they were
C34_InputsNotMutated ==
    [][(pc # "idle" /\ pc' # "idle") => (story' = story /\ config' = config)]_vars

\* execute_story has returned SUCCESS after a retry and the story it was given
\* still has its pass flag unset and its attempt counter at 0
C34_SuccessLeavesStoryUnmarked ==
    /\ Returned
    /\ returned.result = "SUCCESS"
    /\ returned.iterations = 2
    /\ story \in Stories
    /\ ~ story.passes
    /\ story.attempts = 0

\* the error the loop records for a failed phase call: for the coder its
\* stderr or the fixed text when the stderr is empty, for the validator its
\* output, for the auditor its feedback
RecordedError(c) ==
    IF c.phase = "coder" /\ c.text = << >>
    THEN << "Claude invocation failed" >>
    ELSE c.text

\* C37: when execute_story with max_retries >= 1 returns FAILED through the
\* circuit breaker, last_error is the error recorded by the final iteration
\* itself, never an error left over from an earlier iteration
C37_LastErrorIsOfFinalIteration ==
    (Returned /\ returned.result = "FAILED" /\ returned.iterations >= 1) =>
        /\ config.max_retries >= 1
        /\ returned.iterations = config.max_retries
        /\ last_call.iteration = returned.iterations
        /\ last_call.phase \in failed_phases
        /\ returned.last_error = RecordedError(last_call)

\* FAILED after two iterations whose errors differ: the first failed at the
\* validator, the second at the coder
C37_FailedWithSecondError ==
    /\ Returned
    /\ returned.result = "FAILED"
    /\ returned.iterations = 2
    /\ prev_failure.phase = "validator"
    /\ prev_failure.text # << >>
    /\ last_call.phase = "coder"
    /\ RecordedError(prev_failure) # RecordedError(last_call)
    /\ returned.last_error = RecordedError(last_call)

\* C38: the error context given to the coder in iteration k+1 is the error
\* text of iteration k alone, errors of earlier iterations are neither
\* accumulated nor carried forward, and iteration 1 runs with an empty error
\* context
C38_ErrorContextIsOfPreviousIteration ==
    pc = "coder" =>
        /\ attempt = 1 => error_context = << >>
        /\ attempt >= 2 =>
              /\ prev_failure.iteration = attempt - 1
              /\ error_context = RecordedError(prev_failure)
        /\ prompt = _format_prompt(template, story, config.learnings,
                                   config.files_whitelist,
                                   IF attempt = 1 THEN << >>
                                   ELSE RecordedError(prev_failure))

\* the coder of iteration 3 is about to run: iterations 1 and 2 failed with
\* different errors and the error context is the one of iteration 2
C38_ThirdIterationSeesSecondError ==
    /\ pc = "coder"
    /\ attempt = 3
    /\ "coder" \in failed_phases
    /\ prev_failure.phase = "validator"
    /\ prev_failure.text # << >>
    /\ error_context = prev_failure.text
    /\ ~ Contains(error_context, << "Claude invocation failed" >>)

\* ---------------------------------------------------------------------------
\* commit_story: staging before the commit
\* ---------------------------------------------------------------------------

\* the paths staged successfully before the git command at position i
StagedBefore(i) ==
    { git_calls[k].path : k \in { j \in 1..(i - 1) :
                                    git_calls[j].cmd = "add" /\ git_calls[j].ok } }

\* a git add that failed ends commit_story with a failure that names the file,
\* and no commit command is issued
FailedStageEndsCall ==
    \A i \in Issued({ "add" }) :
        ~ git_calls[i].ok =>
            /\ gpc = "done"
            /\ i = Len(git_calls)
            /\ Issued({ "commit" }) = { }
            /\ commits = 0
            /\ ~ commit_result.success
            /\ IsPrefixOf(<< "Failed to stage ", git_calls[i].path, ": " >>,
                          commit_result.error)

\* C35 as stated: commit_story issues the commit command only after every
\* qualifying file (whitelisted, existing, with a diff against HEAD or
\* untracked) has been staged successfully; if staging any file fails it
\* returns failure naming that file and issues no commit command
C35_CommitAfterAllQualifyingStaged ==
    /\ \A i \in Issued({ "commit" }) : QualifyingPaths \subseteq StagedBefore(i)
    /\ FailedStageEndsCall

\* C35, amended: commit_story issues the commit command only after every file
\* it has selected for staging (a whitelisted existing path for which its
\* diff or ls-files command succeeded and named the path) has been staged
\* successfully; if staging any file fails it returns failure naming that
\* file and issues no commit command
C35_CommitAfterAllSelectedStaged ==
    /\ \A i \in Issued({ "commit" }) :
           /\ staged_files # << >>
           /\ StagedBefore(i) = { staged_files[k] : k \in DOMAIN staged_files }
           /\ StagedBefore(i) \subseteq QualifyingPaths
    /\ FailedStageEndsCall

\* two files were selected, the first was staged and the git add of the second
\* failed: commit_story has returned a failure and issued no commit
C35_SecondStageFailed ==
    /\ gpc = "done"
    /\ Len(staged_files) = 2
    /\ Cardinality(Issued({ "add" })) = 2
    /\ \E i \in Issued({ "add" }) : ~ git_calls[i].ok /\ git_calls[i].path = staged_files[2]
    /\ staged_files[1] \in index
    /\ Issued({ "commit" }) = { }
    /\ ~ commit_result.success

\* ---------------------------------------------------------------------------
\* _parse_verdict: the precedence of the verdicts
\* ---------------------------------------------------------------------------

\* C39: _parse_verdict applies the fixed precedence PASS > RETRY > ESCALATE
\* whatever the order of the lines: an output with a standalone PASS line is
\* PASS even if it also has RETRY: or ESCALATE: lines, an output without one
\* that has a RETRY: line followed by further text is RETRY even if it has an
\* ESCALATE: line, and ESCALATE is returned only when there is no standalone
\* PASS line and no matching RETRY: line
C39_VerdictPrecedence ==
    LET out == Strip(raw_output)
        pass == "PASS" \in VerdictLineKinds(out)
        retry == KeywordLinesWithText(out, "RETRY:")
        escalate == KeywordLinesWithText(out, "ESCALATE:")
    IN  apc = "returned" =>
            /\ pass => audit_result.verdict = "PASS"
            /\ (~ pass /\ retry # { }) => audit_result.verdict = "RETRY"
            /\ audit_result.verdict = "ESCALATE" =>
                   (~ pass /\ retry = { } /\ escalate # { })

\* RETRY returned for an output whose first line is an ESCALATE: line and
\* whose RETRY: line comes after it
C39_RetryLineAfterEscalateLine ==
    /\ apc = "returned"
    /\ raw_output = << "ESCALATE:", NL, "RETRY:", "text" >>
    /\ audit_result.verdict = "RETRY"
    /\ audit_result.feedback = << "text" >>

\* ---------------------------------------------------------------------------
\* invoke_claude: every failure is returned
\* ---------------------------------------------------------------------------

\* C40: invoke_claude never raises: a failure to spawn, a timeout and an
\* unexpected exception each end in a returned (stdout, stderr, exit_code)
\* tuple with stdout == "" and exit_code == -1, so the caller always receives
\* a result
C40_FailuresAreReturned ==
    /\ ipc \in { "off", "idle", "popen", "communicate", "terminate", "wait_grace",
                 "kill", "wait_reap", "best_effort", "handler_return", "returned" }
    /\ ipc = "returned" =>
           /\ result # NoResult
           /\ handler # "none" =>
                  /\ result.stdout = << >>
                  /\ result.exit_code = -1
                  /\ result.stderr # << >>
    /\ (ipc \notin { "off", "idle", "returned" } /\ ~ ENABLED ChildExits) =>
           ENABLED (Popen \/ Communicate \/ Terminate \/ WaitGrace \/ Kill \/ WaitReap
                      \/ BestEffortKill \/ HandlerReturn)

\* an exception of communicate, then exceptions of terminate: the call has
\* returned the error tuple through the best-effort branch
C40_ErrorReturnedAfterBestEffort ==
    /\ ipc = "returned"
    /\ handler = "Exception"
    /\ spawned = 1
    /\ ops = << "terminate", "kill" >>
    /\ result.stdout = << >>
    /\ result.exit_code = -1

====
